---- MODULE Spec2Model ----
(***************************************************************************)
(* Durable pipeline workflows of bls_agent:                                *)
(*   BLSReleaseSummaryWorkflow  (internal/workflows/bls/workflow.go)       *)
(*   PaperOfTheDayWorkflow      (internal/workflows/arxiv/workflow.go)     *)
(* A workflow is a single logical thread; it suspends at every             *)
(* ExecuteActivity(...).Get and at every timer.Get.  pc names the          *)
(* suspension point the workflow is waiting on, and each action is the     *)
(* code that runs from one suspension point to the next.                   *)
(*                                                                         *)
(* Specifications:                                                         *)
(*   Spec        a run of either workflow                                  *)
(*   CancelSpec  a run during which cancellation may be requested          *)
(*   ReplaySpec  a BLS run whose worker may crash and replay the recorded  *)
(*               event history                                             *)
(*   SchemaSpec  llm.GenerateSchemaFromType applied to a struct type       *)
(***************************************************************************)
EXTENDS Integers, Sequences, FiniteSets, TLC

\* ---------------------------------------------------------------- bounds
MaxItems == 3        \* discovery returns 0..MaxItems items
MaxDur == 3          \* an activity attempt lasts 0 or MaxDur seconds
MaxRetries == 1      \* retried activity attempts per run
MaxReplayItems == 2  \* ReplaySpec: discovery returns 0..MaxReplayItems items
MaxCrashes == 1      \* ReplaySpec: worker crashes per run
MaxFields == 4       \* SchemaSpec: fields of the struct type
MaxFeed == 2         \* FindSpec: events of the calendar feed
MaxSummary == 2      \* FetchSpec: characters of an event summary
MaxNodes == 2        \* ExtractSpec: elements of the document
MaxParts == 2        \* ExtractSpec: pieces of an element's text
MaxPages == 2        \* PagingSpec: full pages of the ArXiv result set
MaxThread == 3       \* ThreadSpec: tweets of the thread
MaxIcs == 2          \* CollectSpec: events the parser emits

\* ------------------------------------------------------------- constants
BLSInterval == 5           \* workflow.NewTimer(ctx, 5*time.Second)
ArxivInterval == 1         \* workflow.NewTimer(ctx, 1*time.Second)
BLSStartToClose == 600     \* StartToCloseTimeout: 600 * time.Second
ArxivStartToClose == 60    \* StartToCloseTimeout: 60 * time.Second
MaxTweetLen == 280         \* if len(twttxt) > 280

VARIABLES
  wf,          \* which workflow this run executes: "bls" or "arxiv"
  pc,          \* suspension point the workflow is waiting on, or "done"
  events,      \* discovered items in discovery order (events / arxivIds)
  i,           \* index of the item the loop is processing
  elapsed,     \* seconds on the workflow clock since the current item's timer
               \* was created, kept up to the timer's interval
  sincePost,   \* seconds on the workflow clock since PostTweetActivity was last
               \* invoked, kept up to the interval; NoPost before the first
  attempt,     \* attempt number of the activity in flight
  retries,     \* retried attempts so far in this run (bounded by MaxRetries)
  twttxt,      \* BLS: the tweet text of the current item
  twtsums,     \* BLS: tweets posted so far
  ids,         \* arXiv: ids kept so far
  retOut,      \* the list the workflow returned
  retErr,      \* whether the workflow returned a non-nil error
  discovery,   \* history: "pending", "ok" or "failed"
  status,      \* history: per item, pipeline state and the stage that failed
  trace,       \* history: the activity attempts, timer creation and timer wait
               \* of the current item (of discovery before the loop), in order
  posts,       \* history: every PostTweetActivity attempt, with the time since
               \* the previous one
  waitFrom,    \* history: value of elapsed when the current item's timer.Get
               \* began; NoWait before
  lastResp,    \* history: the value of resp after the latest Get of the
               \* generation activity, and the item it was for
  timeouts,    \* history: the current item (0 for discovery) if one of its
               \* activity attempts timed out
  pending,     \* the activity futures whose Get has not returned
  cancelled,   \* the workflow context is cancelled
  cancelAt,    \* history: where the run was when cancellation was requested
  waited,      \* history: the seconds the current item's timer.Get blocked
  fetchGap,    \* history: arXiv: the seconds, up to the interval, between the
               \* scheduling of the previous paper's abstract fetch and of
               \* the current one's
  tweetForReal,\* params.TweetForReal of the run
  unmapped,    \* the positions in the discovered list of the events whose
               \* title has no entry in eventMappings
  written,     \* history: the items whose tweet PostTweetActivity wrote to
               \* Twitter
  schemaErr,   \* whether schema generation for the workflow's reply struct
               \* returns an error (a pure function of the type: the same
               \* result every time the workflow code runs it)
  history,     \* the event history of the run: the recorded outcome of every
               \* activity and timer whose Get has returned
  cursor,      \* how many recorded outcomes the current execution of the
               \* workflow code has consumed
  crashes,     \* worker crashes so far
  reinvoked,   \* history: an activity was started although its outcome was
               \* already in the event history
  performed,   \* history: per item, how many PostTweetActivity attempts ran
               \* to completion
  lost,        \* history: per item, how many of those completions were lost
               \* to a crash before they were recorded
  liveOut,     \* history: twtsums as it stood after the last step that was
               \* not a replay
  contract,    \* SchemaSpec: the struct type handed to GenerateSchemaFromType
  schema,      \* SchemaSpec: the schema map it returned
  schemaTexts, \* TextSpec: the schema texts llm.GenerateSchema returned for
               \* the struct type, one per invocation
  find,        \* FindSpec: a call of bls.FindEvents: the feed, mins, the result
  fetch,       \* FindSpec, FetchSpec: a call of bls.FetchReleaseHTML: the
               \* event, the server's answer, the result
  extract,     \* ExtractSpec: a call of bls.ExtractSummary: the document, the
               \* result
  completion,  \* CompleteSpec: a call of llm.CompleteWithSchema: the schema,
               \* the server's answers, the requests made, the result
  paging,      \* PagingSpec: a call of GetArxivPapersBySubmissionDate: the
               \* result set, the loop's variables, the requests made
  thread,      \* ThreadSpec: a call of twitterClient.PostTweetThread: the
               \* texts, the loop's variables, the tweets posted
  collect      \* CollectSpec: a call of bls.GetAllEvents from parser.Load on:
               \* the parser, the collector goroutine, the caller

wvars == <<wf, pc, events, i, elapsed, sincePost, attempt, retries, twttxt, twtsums,
           ids, retOut, retErr, discovery, status, trace, posts, waitFrom,
           lastResp, timeouts, pending, cancelled, cancelAt, schemaErr,
           tweetForReal, written, waited, fetchGap, unmapped>>

rvars == <<history, cursor, crashes, reinvoked, performed, lost, liveOut>>

svars == <<contract, schema, schemaTexts>>

lvars == <<find, fetch, extract, completion, paging, thread, collect>>

vars == <<wvars, rvars, svars, lvars>>

Max(a, b) == IF a >= b THEN a ELSE b

NoPost == 0 - 1

NoWait == 0 - 1

Ev(stage, item) == [stage |-> stage, item |-> item]

Durations == {0, MaxDur}

\* Mutant of Interval: the BLS timer is created with 1 second.
IntervalShort(w) == 1

Interval(w) == IF w = "bls" THEN BLSInterval ELSE ArxivInterval

StartToClose(w) == IF w = "bls" THEN BLSStartToClose ELSE ArxivStartToClose

\* A duration x on the workflow clock after d more seconds.  Durations are
\* only ever compared with the timer's interval, so they are kept up to cap.
Passed(x, d, cap) == IF x < 0 THEN x ELSE IF x + d >= cap THEN cap ELSE x + d

DiscoverStage(w) == IF w = "bls" THEN "find" ELSE "ids"

FirstStage(w) == IF w = "bls" THEN "fetch" ELSE "abstract"

ActivityStages == {"find", "fetch", "extract", "complete", "post", "ids", "abstract"}

NoTweet == [item |-> 0, len |-> 0, chars |-> 0]

St(state, failed) == [state |-> state, failed |-> failed]

NoCancel == [item |-> 0, pc |-> "none", posts |-> 0, out |-> 0]

\* Default retry policy of an activity whose options set no RetryPolicy:
\* initial interval 1 s, backoff coefficient 2, maximum interval 100 s,
\* unlimited attempts.  Delay before attempt number n + 1.
RetryBackoff(n) == IF 2 ^ (n - 1) > 100 THEN 100 ELSE 2 ^ (n - 1)

\* ------------------------------------------------------------ LLM replies
\* The content returned by CompleteWithSchemaActivity.  empty: the string is
\* "" (what the workflow's resp holds when the activity returned an error);
\* json: it parses into the target struct; has: the object carries the field
\* (tweet / keep); chars, len: length of the tweet in characters and in
\* bytes; keep: value of keep.
EmptyResp ==
  [empty |-> TRUE, json |-> FALSE, has |-> FALSE, chars |-> 0, len |-> 0, keep |-> FALSE]

\* No Get of the generation activity has returned yet.
NoResp == [item |-> 0, r |-> EmptyResp]

\* Tweets by length: empty, 280 one-byte characters, 281 one-byte characters,
\* and 280 characters of which one takes three bytes.
TweetSizes ==
  {[chars |-> 0, len |-> 0],
   [chars |-> MaxTweetLen, len |-> MaxTweetLen],
   [chars |-> MaxTweetLen + 1, len |-> MaxTweetLen + 1],
   [chars |-> MaxTweetLen, len |-> MaxTweetLen + 2]}

\* CompleteWithSchema returns content only when it is not "" (LLMResponseError
\* otherwise), so a successful reply is never the empty string.
TweetReplies ==
  {[empty |-> FALSE, json |-> FALSE, has |-> FALSE, chars |-> 0, len |-> 0, keep |-> FALSE],
   [empty |-> FALSE, json |-> TRUE, has |-> FALSE, chars |-> 0, len |-> 0, keep |-> FALSE]}
  \cup {[empty |-> FALSE, json |-> TRUE, has |-> TRUE, chars |-> s.chars, len |-> s.len,
         keep |-> FALSE] : s \in TweetSizes}

KeepReplies ==
  {[empty |-> FALSE, json |-> FALSE, has |-> FALSE, chars |-> 0, len |-> 0, keep |-> FALSE],
   [empty |-> FALSE, json |-> TRUE, has |-> FALSE, chars |-> 0, len |-> 0, keep |-> FALSE]}
  \cup {[empty |-> FALSE, json |-> TRUE, has |-> TRUE, chars |-> 0, len |-> 0, keep |-> k] :
          k \in BOOLEAN}

\* json.Unmarshal([]byte(resp), &v): error on "" and on text that does not
\* parse into the struct.
UnmarshalFails(resp) == resp.empty \/ ~resp.json

\* twtstruct.Tweet after a successful Unmarshal into a fresh TweetResponse{}:
\* the field of the reply, or the zero value "" when the reply has no tweet.
TweetOf(resp, k) ==
  IF resp.has /\ resp.len > 0
    THEN [item |-> k, len |-> resp.len, chars |-> resp.chars]
    ELSE NoTweet

\* keeper.Keep after a successful Unmarshal into a fresh struct: the field of
\* the reply, or the zero value false when the reply has no keep.
KeepOf(resp) == resp.has /\ resp.keep

\* Mutant of SchemaFails: generation fails whenever the workflow code is
\* re-executed against a recorded history.
SchemaFailsOnReplay == cursor < Len(history)

\* The err of llm.GenerateSchemaFromType(twtstruct) / llm.GenerateSchema(keeper).
SchemaFails == schemaErr

\* Mutant of ForReal: the flag comes from params.TweetForReal and is set.
ForRealFromParams == TRUE

\* The forReal argument the workflow passes to PostTweetActivity.
ForReal == FALSE

\* How an attempt of an activity can end without its result reaching the
\* workflow; performed: the activity body ran to completion; window: the
\* worker crashed after the body returned and before the completion was
\* recorded.  With forReal = false PostTweetActivity returns nil before doing
\* anything, so an attempt of it is lost only when its worker dies, before
\* or after the body ran.  With forReal = true the call to client.PostTweet
\* can also outlast the timeout, or return an error after the tweet was
\* created.
LostAttempts(stage) ==
  IF stage = "post"
    THEN {[kind |-> "timeout", performed |-> FALSE, window |-> FALSE],
          [kind |-> "timeout", performed |-> TRUE, window |-> TRUE]}
         \cup (IF ForReal
                 THEN {[kind |-> "timeout", performed |-> TRUE, window |-> FALSE],
                       [kind |-> "error", performed |-> FALSE, window |-> FALSE],
                       [kind |-> "error", performed |-> TRUE, window |-> FALSE]}
                 ELSE {})
    ELSE {[kind |-> "error", performed |-> FALSE, window |-> FALSE],
          [kind |-> "timeout", performed |-> FALSE, window |-> FALSE]}

\* ------------------------------------------------------------------ Init
WorkflowInit ==
  /\ wf \in {"bls", "arxiv"}
  /\ pc = DiscoverStage(wf)
  /\ events = <<>>
  /\ i = 0
  /\ elapsed = 0
  /\ sincePost = NoPost
  /\ attempt = 1
  /\ retries = 0
  /\ twttxt = NoTweet
  /\ twtsums = <<>>
  /\ ids = <<>>
  /\ retOut = <<>>
  /\ retErr = FALSE
  /\ discovery = "pending"
  /\ status = <<>>
  /\ trace = <<Ev(DiscoverStage(wf), 0)>>
  /\ posts = <<>>
  /\ waitFrom = NoWait
  /\ waited = NoWait
  /\ fetchGap = NoWait
  /\ lastResp = NoResp
  /\ timeouts = {}
  /\ pending = {Ev(DiscoverStage(wf), 0)}
  /\ cancelled = FALSE
  /\ cancelAt = NoCancel
  /\ schemaErr \in BOOLEAN
  /\ written = {}

\* An empty event history, no crash.
ReplayIdle ==
  /\ history = <<>>
  /\ cursor = 0
  /\ crashes = 0
  /\ reinvoked = FALSE
  /\ performed = <<>>
  /\ lost = <<>>
  /\ liveOut = <<>>

NoContract == [fields |-> {}, tagged |-> {}]

NoSchema == [generated |-> FALSE, properties |-> {}, hasRequired |-> FALSE, required |-> <<>>]

SchemaIdle == contract = NoContract /\ schema = NoSchema /\ schemaTexts = <<>>

\* The run is started with TweetForReal unset.
DryRun == tweetForReal = FALSE

\* Every discovered event has an entry in eventMappings.
AllMapped == unmapped = {}

\* event.Start == nil
NoStart == [set |-> FALSE, at |-> 0]

NoFind == [feed |-> <<>>, mins |-> 0, called |-> FALSE, failed |-> FALSE,
           out |-> <<>>]

NoFetch == [event |-> [summary |-> <<>>, start |-> NoStart],
            discovered |-> FALSE,
            server |-> [status |-> "200", release |-> "published"],
            at |-> 0, called |-> FALSE, err |-> "", requests |-> 0]

NoExtract == [doc |-> <<>>, called |-> FALSE, err |-> "", out |-> <<>>]

NoCompletion == [schema |-> "object", answers |-> <<>>, called |-> FALSE,
                 requests |-> 0, err |-> "", content |-> ""]

NoPaging == [total |-> 0, start |-> 0, allEntries |-> <<>>, clock |-> 0,
             requests |-> <<>>, returned |-> FALSE, err |-> FALSE]

\* The empty tweet id: no tweet to reply to.
NoID == 0

NoThread == [texts |-> <<>>, next |-> 1, previousTweetID |-> NoID,
             posted |-> <<>>, calls |-> 0, clock |-> 0,
             returned |-> FALSE, err |-> FALSE]

\* GetAllEvents is not running: no parser, no goroutine, no caller.
NoCollect == [feed |-> <<>>, parser |-> "idle", emitted |-> 0, event |-> "",
              icsEvents |-> <<>>, collector |-> "none", caller |-> "none",
              via |-> "none", read |-> <<>>, torn |-> FALSE]

\* No library function is called on its own.
LibIdle ==
  /\ find = NoFind /\ fetch = NoFetch /\ extract = NoExtract
  /\ completion = NoCompletion /\ paging = NoPaging
  /\ thread = NoThread /\ collect = NoCollect

Init == WorkflowInit /\ DryRun /\ AllMapped /\ ReplayIdle /\ SchemaIdle /\ LibIdle

\* ------------------------------------------------- control-flow fragments
\* d seconds pass on the workflow clock.
Tick(d) ==
  /\ elapsed' = Passed(elapsed, d, Interval(wf))
  /\ sincePost' = Passed(sincePost, d, BLSInterval)

\* The futures still pending once the Get the workflow was blocked on has
\* returned.
Got == pending \ {Ev(pc, i)}

\* Mutant of ReturnError: the error is swallowed and an empty list returned.
ReturnErrorSwallowed(d, st) ==
  /\ pc' = "done"
  /\ Tick(d)
  /\ retErr' = FALSE
  /\ retOut' = <<>>
  /\ status' = st
  /\ pending' = Got
  /\ UNCHANGED <<wf, events, i, attempt, retries, twttxt, twtsums, ids, trace, posts, waitFrom,
                 waited>>

\* return nil, fmt.Errorf(...) after d seconds: the run ends with an error
\* and no list.
ReturnError(d, st) ==
  /\ pc' = "done"
  /\ Tick(d)
  /\ retErr' = TRUE
  /\ retOut' = <<>>
  /\ status' = st
  /\ pending' = Got
  /\ UNCHANGED <<wf, events, i, attempt, retries, twttxt, twtsums, ids, trace, posts, waitFrom,
                 waited>>

\* Top of the loop body for item k: the pacing timer is created, then the
\* first activity of the item is scheduled.  On a cancelled context neither
\* the timer nor the activity is started: both futures are ready at once
\* with a CanceledError.
BeginItem(k) ==
  /\ i' = k
  /\ elapsed' = 0
  /\ waitFrom' = NoWait
  /\ waited' = NoWait
  /\ pc' = FirstStage(wf)
  /\ attempt' = 1
  /\ twttxt' = NoTweet
  /\ trace' = IF cancelled THEN <<>> ELSE <<Ev("timer", k), Ev(FirstStage(wf), k)>>
  /\ pending' = IF cancelled THEN Got ELSE Got \cup {Ev(FirstStage(wf), k)}
  /\ UNCHANGED <<retOut, retErr>>

\* return twtsums, nil / return ids, nil after d seconds
ReturnList(d, out) ==
  /\ pc' = "done"
  /\ elapsed' = Passed(elapsed, d, Interval(wf))
  /\ retOut' = out
  /\ retErr' = FALSE
  /\ pending' = Got
  /\ waited' = (IF pc = "timer" THEN d ELSE waited)
  /\ UNCHANGED <<i, attempt, twttxt, trace, waitFrom>>

\* `continue`, or the end of the loop body, after d seconds: the next item
\* begins, or the loop is over and the collected list is returned.
NextItem(d, out, st) ==
  /\ sincePost' = Passed(sincePost, d, BLSInterval)
  /\ status' = st
  /\ IF wf = "bls" THEN twtsums' = out /\ ids' = ids ELSE ids' = out /\ twtsums' = twtsums
  /\ IF i < Len(events)
       THEN BeginItem(i + 1)
       ELSE ReturnList(d, out)
  /\ UNCHANGED <<wf, events, retries, discovery, posts>>

\* Mutant of Await: PostTweetActivity is started without waiting on its
\* future; the tweet is appended and the loop goes on at once.
AwaitDetached(stage, d, st) ==
  IF stage = "post"
    THEN /\ status' = st
         /\ twtsums' = Append(twtsums, twttxt)
         /\ posts' = Append(posts, [item |-> i, gap |-> Passed(sincePost, d, BLSInterval)])
         /\ sincePost' = 0
         /\ IF i < Len(events)
              THEN /\ i' = i + 1
                   /\ elapsed' = 0
                   /\ waitFrom' = NoWait
                   /\ waited' = NoWait
                   /\ pc' = FirstStage(wf)
                   /\ attempt' = 1
                   /\ twttxt' = NoTweet
                   /\ trace' = <<Ev("timer", i + 1), Ev(FirstStage(wf), i + 1)>>
                   /\ pending' = Got \cup {Ev("post", i), Ev(FirstStage(wf), i + 1)}
                   /\ UNCHANGED <<retOut, retErr>>
              ELSE /\ pc' = "done"
                   /\ retOut' = Append(twtsums, twttxt)
                   /\ retErr' = FALSE
                   /\ pending' = Got \cup {Ev("post", i)}
                   /\ UNCHANGED <<i, elapsed, attempt, twttxt, trace, waitFrom, waited>>
         /\ UNCHANGED <<wf, events, retries, ids, discovery>>
    ELSE /\ pc' = stage
         /\ attempt' = 1
         /\ status' = st
         /\ trace' = Append(trace, Ev(stage, i))
         /\ pending' = Got \cup {Ev(stage, i)}
         /\ elapsed' = Passed(elapsed, d, Interval(wf))
         /\ posts' = posts
         /\ sincePost' = Passed(sincePost, d, BLSInterval)
         /\ UNCHANGED <<wf, events, i, retries, twttxt, twtsums, ids, retOut, retErr,
                        discovery, waitFrom>>
         /\ waited' = (IF pc = "timer" THEN d ELSE waited)

\* ExecuteActivity(ctx, stage, ...) for the current item, d seconds after the
\* previous suspension point.  On a cancelled context the activity is not
\* started and the future is ready at once with a CanceledError.
Await(stage, d, st) ==
  /\ pc' = stage
  /\ attempt' = 1
  /\ status' = st
  /\ trace' = IF cancelled THEN trace ELSE Append(trace, Ev(stage, i))
  /\ pending' = IF cancelled THEN Got ELSE Got \cup {Ev(stage, i)}
  /\ elapsed' = Passed(elapsed, d, Interval(wf))
  /\ IF stage = "post" /\ ~cancelled
       THEN /\ posts' = Append(posts, [item |-> i, gap |-> Passed(sincePost, d, BLSInterval)])
            /\ sincePost' = 0
       ELSE /\ posts' = posts
            /\ sincePost' = Passed(sincePost, d, BLSInterval)
  /\ UNCHANGED <<wf, events, i, retries, twttxt, twtsums, ids, retOut, retErr,
                 discovery, waitFrom>>
  /\ waited' = (IF pc = "timer" THEN d ELSE waited)

\* Mutant of Skip: a failed item ends the run with an error.
SkipAborts(d, stage) ==
  /\ ReturnError(d, [status EXCEPT ![i] = St("Skipped", stage)])
  /\ UNCHANGED discovery

\* Mutant of Skip: a failed item also drops the tweets collected so far.
SkipResets(d, stage) ==
  NextItem(d, <<>>, [status EXCEPT ![i] = St("Skipped", stage)])

\* The BLS workflow logs the failure of an item and `continue`s.
Skip(d, stage) ==
  NextItem(d, twtsums, [status EXCEPT ![i] = St("Skipped", stage)])

\* Mutant of Fail: a failed paper is skipped and the loop goes on.
FailSkips(d, stage) ==
  NextItem(d, ids, [status EXCEPT ![i] = St("Failed", stage)])

\* The arXiv workflow returns the failure of an item as the run's error.
Fail(d, stage) ==
  /\ ReturnError(d, [status EXCEPT ![i] = St("Failed", stage)])
  /\ UNCHANGED discovery

\* What no step of the workflow code changes; a timed-out attempt is
\* remembered while the loop is at its item.
Quiet ==
  /\ UNCHANGED <<cancelled, cancelAt, schemaErr, tweetForReal, unmapped>>
  /\ timeouts' = IF i' = i /\ pc' # "done" THEN timeouts ELSE {}

\* A step of a run without crashes and outside schema generation.
Plain == UNCHANGED <<rvars, svars, lvars>>

\* Mutant of Canceled: a Get that is pending when the context is cancelled
\* still waits for the activity's own result.
CanceledIgnored(ok, d) == TRUE

\* Get on a cancelled context: it returns a CanceledError without waiting.
Canceled(ok, d) == cancelled => (~ok /\ d = 0)

\* --------------------------------------------------------------- activities
\* How an attempt of an activity can fail and be retried.
AttemptFailures(stage) == {a.kind : a \in LostAttempts(stage)}

\* An attempt of the activity in flight fails with a retryable failure: the
\* workflows set only StartToCloseTimeout, so the default retry policy
\* schedules the next attempt after the backoff, and Get keeps waiting.
OnAttemptFailure(kind, d) ==
  LET t == (IF kind = "timeout" THEN StartToClose(wf) ELSE d) + RetryBackoff(attempt)
  IN  /\ attempt' = attempt + 1
      /\ retries' = retries + 1
      /\ trace' = Append(trace, Ev(pc, i))
      /\ timeouts' = IF kind = "timeout" THEN timeouts \cup {i} ELSE timeouts
      /\ elapsed' = Passed(elapsed, t, Interval(wf))
      /\ IF pc = "post"
           THEN /\ posts' = Append(posts, [item |-> i, gap |-> Passed(sincePost, t, BLSInterval)])
                /\ sincePost' = 0
           ELSE /\ posts' = posts
                /\ sincePost' = Passed(sincePost, t, BLSInterval)
      /\ UNCHANGED <<wf, pc, events, i, twttxt, twtsums, ids, retOut, retErr,
                     discovery, status, waitFrom, waited, lastResp, pending,
                     cancelled, cancelAt, schemaErr, tweetForReal, unmapped,
                     written,
                     fetchGap>>

ActivityRetry ==
  /\ pc \in ActivityStages
  /\ retries < MaxRetries
  /\ ~cancelled
  /\ \E kind \in AttemptFailures(pc), d \in Durations :
       /\ (kind = "timeout") => (d = 0)
       /\ OnAttemptFailure(kind, d)
  /\ Plain

\* Mutant of EnterLoop: the pacing timer is created before the empty list is
\* noticed.
EnterLoopTimerFirst(n, d) ==
  IF n = 0
    THEN /\ pc' = "done"
         /\ elapsed' = 0
         /\ retOut' = <<>>
         /\ retErr' = FALSE
         /\ trace' = Append(trace, Ev("timer", 1))
         /\ pending' = Got
         /\ UNCHANGED <<i, attempt, twttxt, waitFrom, waited>>
    ELSE BeginItem(1)

\* After a successful discovery of n items: BLS returns nil, nil on an empty
\* list; the arXiv loop over an empty list falls through to return ids, nil.
EnterLoop(n, d) ==
  IF n = 0 THEN ReturnList(d, <<>>) ELSE BeginItem(1)

\* The code after the discovery activity's Get.
OnDiscover(ok, n, d) ==
  /\ IF ok
       THEN /\ discovery' = "ok"
            /\ events' = [k \in 1..n |-> k]
            /\ status' = [k \in 1..n |-> St("Discovered", "none")]
            /\ EnterLoop(n, d)
            /\ UNCHANGED <<wf, sincePost, retries, twtsums, ids, posts>>
       ELSE /\ discovery' = "failed"
            /\ ReturnError(d, status)
  /\ UNCHANGED lastResp
  /\ Quiet
  /\ UNCHANGED <<written, fetchGap>>

\* FindEventsActivity / GetArxivIdsForDateActivity: Get returns.
Discover ==
  /\ pc = DiscoverStage(wf)
  /\ \E d \in Durations, ok \in BOOLEAN, n \in 0..MaxItems :
       /\ ~ok => (n = 0)
       /\ Canceled(ok, d)
       /\ OnDiscover(ok, n, d)
  /\ Plain

\* ------------------------------------------- BLSReleaseSummaryWorkflow
\* Mutant of OnFetch: the fetch error is logged but the item goes on.
OnFetchContinues(ok, d) ==
  /\ Await("extract", d,
           [status EXCEPT ![i] = IF ok THEN St("Fetched", "none") ELSE St("Skipped", "fetch")])
  /\ UNCHANGED lastResp
  /\ Quiet
  /\ UNCHANGED <<written, fetchGap>>

\* The code after FetchReleaseHTMLActivity's Get.
OnFetch(ok, d) ==
  /\ IF ok
       THEN Await("extract", d, [status EXCEPT ![i] = St("Fetched", "none")])
       ELSE Skip(d, "fetch")
  /\ UNCHANGED lastResp
  /\ Quiet
  /\ UNCHANGED <<written, fetchGap>>

\* FetchReleaseHTMLActivity: Get returns.
BLS_Fetch ==
  /\ wf = "bls" /\ pc = "fetch"
  /\ \E d \in Durations, ok \in BOOLEAN :
       /\ Canceled(ok, d)
       /\ OnFetch(ok, d)
  /\ Plain

\* The code after ExtractSummaryActivity's Get: the schema is generated and
\* marshalled (either step may return an error), and the generation activity
\* is scheduled.
OnExtract(ok, d) ==
  /\ IF ~ok THEN Skip(d, "extract")
     ELSE IF SchemaFails THEN Skip(d, "schema")
     ELSE Await("complete", d, [status EXCEPT ![i] = St("Extracted", "none")])
  /\ UNCHANGED lastResp
  /\ Quiet
  /\ UNCHANGED <<written, fetchGap>>

\* ExtractSummaryActivity: Get returns.
BLS_Extract ==
  /\ wf = "bls" /\ pc = "extract"
  /\ \E d \in Durations, ok \in BOOLEAN :
       /\ Canceled(ok, d)
       /\ OnExtract(ok, d)
  /\ Plain

\* Start of timer.Get(ctx, nil) for the current item, d seconds after the
\* previous suspension point.
AwaitTimer(d, txt, out, st) ==
  /\ pc' = "timer"
  /\ Tick(d)
  /\ waitFrom' = Passed(elapsed, d, Interval(wf))
  /\ UNCHANGED waited
  /\ twttxt' = txt
  /\ status' = st
  /\ trace' = Append(trace, Ev("wait", i))
  /\ pending' = Got
  /\ IF wf = "bls" THEN twtsums' = out /\ ids' = ids ELSE ids' = out /\ twtsums' = twtsums
  /\ UNCHANGED <<wf, events, i, attempt, retries, retOut, retErr, discovery, posts>>

\* Mutant of BLS_Validate: twtstruct outlives the iteration, so a reply without
\* a tweet leaves the previous item's tweet in it.
BLS_ValidateStale(ok, r, d) ==
  LET resp == IF ok THEN r ELSE EmptyResp
      txt == IF resp.has THEN TweetOf(resp, i)
             ELSE TweetOf(lastResp.r, lastResp.item)
  IN  IF UnmarshalFails(resp)
        THEN Skip(d, IF ok THEN "parse" ELSE "generate")
        ELSE IF txt.len > MaxTweetLen
          THEN Skip(d, "validate")
          ELSE AwaitTimer(d, txt, twtsums, [status EXCEPT ![i] = St("Generated", "none")])

\* Mutant of BLS_Validate: resp holds a reply although the activity returned
\* an error.
BLS_ValidateKeepsReply(ok, r, d) ==
  LET resp == IF ok THEN r
              ELSE [empty |-> FALSE, json |-> TRUE, has |-> TRUE,
                    chars |-> MaxTweetLen, len |-> MaxTweetLen, keep |-> FALSE]
      txt == TweetOf(resp, i)
  IN  IF UnmarshalFails(resp)
        THEN Skip(d, IF ok THEN "parse" ELSE "generate")
        ELSE IF txt.len > MaxTweetLen
          THEN Skip(d, "validate")
          ELSE AwaitTimer(d, txt, twtsums, [status EXCEPT ![i] = St("Generated", "none")])

\* Mutant of BLS_Validate: the length of the tweet is not looked at.
BLS_ValidateAnyLength(ok, r, d) ==
  LET resp == IF ok THEN r ELSE EmptyResp
      txt == TweetOf(resp, i)
  IN  IF UnmarshalFails(resp)
        THEN Skip(d, IF ok THEN "parse" ELSE "generate")
        ELSE AwaitTimer(d, txt, twtsums, [status EXCEPT ![i] = St("Generated", "none")])

\* The code between the generation activity and timer.Get: resp is "" when
\* the activity failed (its error is overwritten by Unmarshal's), Unmarshal
\* decides whether the item goes on, and a tweet over 280 bytes is dropped.
BLS_Validate(ok, r, d) ==
  LET resp == IF ok THEN r ELSE EmptyResp
      txt == TweetOf(resp, i)
  IN  IF UnmarshalFails(resp)
        THEN Skip(d, IF ok THEN "parse" ELSE "generate")
        ELSE IF txt.len > MaxTweetLen
          THEN Skip(d, "validate")
          ELSE AwaitTimer(d, txt, twtsums, [status EXCEPT ![i] = St("Generated", "none")])

\* The code after CompleteWithSchemaActivity's Get, up to timer.Get.
OnComplete(ok, r, d) ==
  /\ BLS_Validate(ok, r, d)
  /\ lastResp' = [item |-> i, r |-> IF ok THEN r ELSE EmptyResp]
  /\ Quiet
  /\ UNCHANGED <<written, fetchGap>>

\* CompleteWithSchemaActivity: Get returns.
BLS_Complete ==
  /\ wf = "bls" /\ pc = "complete"
  /\ \E d \in Durations, ok \in BOOLEAN, r \in TweetReplies :
       /\ ~ok => (r = CHOOSE x \in TweetReplies : TRUE)
       /\ Canceled(ok, d)
       /\ OnComplete(ok, r, d)
  /\ Plain

\* Mutant of WaitTime: timer.Get blocks for the whole interval.
WaitTimeFull(e, w) == Interval(w)

\* Mutant of WaitTime: timer.Get never blocks.
WaitTimeNone(e, w) == 0

\* How long timer.Get blocks when e seconds have passed since the timer was
\* created: not at all once the timer has fired.
WaitTime(e, w) == Max(0, Interval(w) - e)

\* How long timer.Get blocks now: on a cancelled context it returns at once.
TimerWait == IF cancelled THEN 0 ELSE WaitTime(elapsed, wf)

\* The code after timer.Get: a non-empty tweet is handed to
\* PostTweetActivity, an empty one ends the item ("No valid tweet generated").
OnTimer ==
  /\ IF twttxt # NoTweet
       THEN Await("post", TimerWait, [status EXCEPT ![i] = St("Validated", "none")])
       ELSE Skip(TimerWait, "validate")
  /\ UNCHANGED lastResp
  /\ Quiet
  /\ UNCHANGED <<written, fetchGap>>

\* timer.Get returns.
BLS_Timer ==
  /\ wf = "bls" /\ pc = "timer"
  /\ OnTimer
  /\ Plain

\* Mutant of AfterPost: the new tweet is put in front of the list.
AfterPostPrepends(ok, d) ==
  IF ok
    THEN NextItem(d, <<twttxt>> \o twtsums, [status EXCEPT ![i] = St("Published", "none")])
    ELSE Skip(d, "publish")

\* Mutant of AfterPost: the tweet is appended before the error is looked at.
AfterPostAppendsFirst(ok, d) ==
  NextItem(d, Append(twtsums, twttxt),
           [status EXCEPT ![i] = IF ok THEN St("Published", "none") ELSE St("Skipped", "publish")])

\* The code after PostTweetActivity's Get: append on success, continue on
\* error.
AfterPost(ok, d) ==
  IF ok
    THEN NextItem(d, Append(twtsums, twttxt), [status EXCEPT ![i] = St("Published", "none")])
    ELSE Skip(d, "publish")

\* What PostTweetActivity does for item k when it returns nil: with forReal
\* unset it only logs, otherwise client.PostTweet has written the tweet.
PostTweetActivity(forReal, w, k) == IF forReal THEN w \cup {k} ELSE w

OnPost(ok, d) ==
  /\ AfterPost(ok, d)
  /\ written' = IF ok THEN PostTweetActivity(ForReal, written, i) ELSE written
  /\ UNCHANGED fetchGap
  /\ UNCHANGED lastResp
  /\ Quiet

\* PostTweetActivity: Get returns.
BLS_Post ==
  /\ wf = "bls" /\ pc = "post"
  /\ \E d \in Durations, ok \in BOOLEAN :
       /\ Canceled(ok, d)
       /\ OnPost(ok, d)
  /\ Plain

\* ------------------------------------------------ PaperOfTheDayWorkflow
\* GetArxivAbstractActivity: Get returns; then llm.GenerateSchema, then the
\* generation activity is scheduled.
Arxiv_Abstract ==
  /\ wf = "arxiv" /\ pc = "abstract"
  /\ \E d \in Durations, ok \in BOOLEAN :
       /\ Canceled(ok, d)
       /\ IF ~ok THEN Fail(d, "fetch")
          ELSE IF SchemaFails THEN Fail(d, "schema")
          ELSE Await("complete", d, [status EXCEPT ![i] = St("Fetched", "none")])
  /\ UNCHANGED lastResp
  /\ Quiet
  /\ UNCHANGED <<written, fetchGap>>
  /\ Plain

\* Mutant of Arxiv_Decide: the id is appended whatever keeper.Keep is.
Arxiv_DecideKeepsAll(ok, r, d) ==
  IF ~ok THEN Fail(d, "generate")
  ELSE IF UnmarshalFails(r) THEN Fail(d, "parse")
  ELSE AwaitTimer(d, NoTweet, Append(ids, events[i]),
                  [status EXCEPT ![i] = St(IF KeepOf(r) THEN "Kept" ELSE "Dropped", "none")])

\* The code after the generation activity's Get: error, Unmarshal, keeper.Keep.
Arxiv_Decide(ok, r, d) ==
  IF ~ok THEN Fail(d, "generate")
  ELSE IF UnmarshalFails(r) THEN Fail(d, "parse")
  ELSE IF KeepOf(r)
    THEN AwaitTimer(d, NoTweet, Append(ids, events[i]), [status EXCEPT ![i] = St("Kept", "none")])
    ELSE AwaitTimer(d, NoTweet, ids, [status EXCEPT ![i] = St("Dropped", "none")])

\* CompleteWithSchemaActivity: Get returns.
Arxiv_Complete ==
  /\ wf = "arxiv" /\ pc = "complete"
  /\ \E d \in Durations, ok \in BOOLEAN, r \in KeepReplies :
       /\ ~ok => (r = CHOOSE x \in KeepReplies : TRUE)
       /\ Canceled(ok, d)
       /\ Arxiv_Decide(ok, r, d)
       /\ lastResp' = [item |-> i, r |-> IF ok THEN r ELSE EmptyResp]
  /\ Quiet
  /\ UNCHANGED <<written, fetchGap>>
  /\ Plain

\* timer.Get returns at the end of the loop body.
Arxiv_Timer ==
  /\ wf = "arxiv" /\ pc = "timer"
  /\ NextItem(TimerWait, ids, status)
  /\ fetchGap' = IF i < Len(events)
                   THEN Passed(elapsed, TimerWait, ArxivInterval)
                   ELSE fetchGap
  /\ UNCHANGED lastResp
  /\ Quiet
  /\ UNCHANGED written
  /\ Plain

Next ==
  \/ Discover
  \/ ActivityRetry
  \/ BLS_Fetch
  \/ BLS_Extract
  \/ BLS_Complete
  \/ BLS_Timer
  \/ BLS_Post
  \/ Arxiv_Abstract
  \/ Arxiv_Complete
  \/ Arxiv_Timer

Spec == Init /\ [][Next]_vars

\* ------------------------------------------------------------- parameters
\* A BLS run started with either value of TweetForReal.
ParamInit ==
  /\ WorkflowInit /\ wf = "bls"
  /\ tweetForReal \in BOOLEAN
  /\ AllMapped
  /\ ReplayIdle /\ SchemaIdle /\ LibIdle

ParamNext ==
  \/ Discover
  \/ ActivityRetry
  \/ BLS_Fetch
  \/ BLS_Extract
  \/ BLS_Complete
  \/ BLS_Timer
  \/ BLS_Post

ParamSpec == ParamInit /\ [][ParamNext]_vars

\* ------------------------------------------------------------ termination
\* A BLS run in which the events at the positions in unmapped have no entry in
\* eventMappings: bls.FetchReleaseHTML returns "no mapping for event" for them
\* on every attempt.
LiveInit ==
  /\ WorkflowInit /\ wf = "bls" /\ DryRun
  /\ unmapped \in SUBSET (1 .. MaxItems)
  /\ ReplayIdle /\ SchemaIdle /\ LibIdle

\* FetchReleaseHTMLActivity returns for an event that has a mapping.
FetchMapped ==
  /\ i \notin unmapped
  /\ BLS_Fetch

\* An attempt of FetchReleaseHTMLActivity for an event without mapping: it
\* returns the error of bls.FetchReleaseHTML, and since the activity options
\* set neither a maximum of attempts nor a schedule-to-close timeout, the
\* next attempt is scheduled and Get keeps waiting. The attempts are counted
\* up to MaxRetries.
FetchUnmapped ==
  /\ wf = "bls" /\ pc = "fetch" /\ i \in unmapped
  /\ \E d \in Durations :
       LET counted == retries < MaxRetries
           t == d + RetryBackoff(attempt)
       IN  /\ attempt' = (IF counted THEN attempt + 1 ELSE attempt)
           /\ retries' = (IF counted THEN retries + 1 ELSE retries)
           /\ trace' = (IF counted THEN Append(trace, Ev(pc, i)) ELSE trace)
           /\ elapsed' = Passed(elapsed, t, Interval(wf))
           /\ sincePost' = Passed(sincePost, t, BLSInterval)
  /\ UNCHANGED <<wf, pc, events, i, twttxt, twtsums, ids, retOut, retErr,
                 discovery, status, waitFrom, waited, lastResp, pending,
                 cancelled, cancelAt, schemaErr, tweetForReal, unmapped,
                 written, fetchGap, posts, timeouts>>
  /\ Plain

LiveNext ==
  \/ Discover
  \/ ActivityRetry
  \/ FetchMapped
  \/ FetchUnmapped
  \/ BLS_Extract
  \/ BLS_Complete
  \/ BLS_Timer
  \/ BLS_Post

\* Every attempt of a stage ends in finite time: a step is taken whenever one
\* is possible.
LiveSpec == LiveInit /\ [][LiveNext]_vars /\ WF_vars(LiveNext)

\* ------------------------------------------------------------ cancellation
\* Cancellation of the run is requested: the workflow context is cancelled.
Cancel ==
  /\ pc # "done"
  /\ ~cancelled
  /\ cancelled' = TRUE
  /\ cancelAt' = [item |-> i, pc |-> pc, posts |-> Len(posts),
                  out |-> IF wf = "bls" THEN Len(twtsums) ELSE Len(ids)]
  /\ UNCHANGED <<wf, pc, events, i, elapsed, sincePost, attempt, retries, twttxt, twtsums,
                 ids, retOut, retErr, discovery, status, trace, posts, waitFrom,
                 waited, fetchGap,
                 lastResp, timeouts, pending, schemaErr, tweetForReal, unmapped,
                 written>>
  /\ Plain

CancelNext == Next \/ Cancel

CancelSpec == Init /\ [][CancelNext]_vars

\* ------------------------------------------------------- crash and replay
\* An outcome as the event history records it.
Outcome(stage, item, ok, n, r) == [stage |-> stage, item |-> item, ok |-> ok, n |-> n, r |-> r]

\* The outcomes the Get the workflow is blocked on can have.
LiveOutcomes ==
  IF pc = "find"
    THEN {Outcome(pc, i, TRUE, n, EmptyResp) : n \in 0..MaxReplayItems}
         \cup {Outcome(pc, i, FALSE, 0, EmptyResp)}
  ELSE IF pc = "complete"
    THEN {Outcome(pc, i, TRUE, 0, r) : r \in TweetReplies}
         \cup {Outcome(pc, i, FALSE, 0, EmptyResp)}
  ELSE IF pc = "timer"
    THEN {Outcome(pc, i, TRUE, 0, EmptyResp)}
  ELSE {Outcome(pc, i, ok, 0, EmptyResp) : ok \in BOOLEAN}

\* The workflow code from the Get it is blocked on to the next one, when
\* that Get yields outcome o.
Step(o) ==
  IF pc = "find" THEN OnDiscover(o.ok, o.n, 0)
  ELSE IF pc = "fetch" THEN OnFetch(o.ok, 0)
  ELSE IF pc = "extract" THEN OnExtract(o.ok, 0)
  ELSE IF pc = "complete" THEN OnComplete(o.ok, o.r, 0)
  ELSE IF pc = "timer" THEN OnTimer
  ELSE OnPost(o.ok, 0)

\* The event history h holds an outcome of the stage for the item.
Recorded(h, stage, item) ==
  \E n \in DOMAIN h : h[n].stage = stage /\ h[n].item = item

\* The next recorded outcome is the outcome of the Get the re-executed
\* workflow code is blocked on.
Matches(o) == o.stage = pc /\ o.item = i

\* Replay: the Get is answered from the event history; nothing is invoked.
Replay ==
  /\ pc # "done"
  /\ cursor < Len(history)
  /\ Matches(history[cursor + 1])
  /\ Step(history[cursor + 1])
  /\ cursor' = cursor + 1
  /\ UNCHANGED <<history, crashes, reinvoked, performed, lost, liveOut>>
  /\ UNCHANGED <<svars, lvars>>

\* The history is exhausted: the pending activity or timer completes, its
\* outcome is recorded, and the workflow code runs on to the next Get,
\* whose activity is started.
Live ==
  /\ pc # "done"
  /\ cursor = Len(history)
  /\ \E o \in LiveOutcomes :
       /\ Step(o)
       /\ history' = Append(history, o)
       /\ performed' = IF pc = "find" /\ o.ok THEN [k \in 1..o.n |-> 0]
                       ELSE IF pc = "post" /\ o.ok THEN [performed EXCEPT ![i] = @ + 1]
                       ELSE performed
       /\ lost' = IF pc = "find" /\ o.ok THEN [k \in 1..o.n |-> 0] ELSE lost
  /\ cursor' = cursor + 1
  /\ liveOut' = twtsums'
  /\ reinvoked' = (reinvoked \/ (pc' \in ActivityStages /\ Recorded(history', pc', i')))
  /\ UNCHANGED crashes
  /\ UNCHANGED <<svars, lvars>>

\* An attempt of the pending activity is lost and the next one is started.
LiveRetry ==
  /\ pc \in ActivityStages
  /\ cursor = Len(history)
  /\ retries < MaxRetries
  /\ \E a \in LostAttempts(pc) :
       /\ OnAttemptFailure(a.kind, 0)
       /\ performed' = IF a.performed THEN [performed EXCEPT ![i] = @ + 1] ELSE performed
       /\ lost' = IF a.window THEN [lost EXCEPT ![i] = @ + 1] ELSE lost
  /\ reinvoked' = (reinvoked \/ Recorded(history, pc, i))
  /\ UNCHANGED <<history, cursor, crashes, liveOut>>
  /\ UNCHANGED <<svars, lvars>>

\* The worker running the workflow code dies: everything the code held in
\* memory is gone, the event history is not, and the code is executed again
\* from the top.
Crash ==
  /\ pc # "done"
  /\ crashes < MaxCrashes
  /\ crashes' = crashes + 1
  /\ cursor' = 0
  /\ pc' = DiscoverStage(wf)
  /\ events' = <<>>
  /\ i' = 0
  /\ elapsed' = 0
  /\ sincePost' = NoPost
  /\ attempt' = 1
  /\ twttxt' = NoTweet
  /\ twtsums' = <<>>
  /\ ids' = <<>>
  /\ retOut' = <<>>
  /\ retErr' = FALSE
  /\ discovery' = "pending"
  /\ status' = <<>>
  /\ trace' = <<Ev(DiscoverStage(wf), 0)>>
  /\ posts' = <<>>
  /\ waitFrom' = NoWait
  /\ waited' = NoWait
  /\ lastResp' = NoResp
  /\ timeouts' = {}
  /\ pending' = {Ev(DiscoverStage(wf), 0)}
  /\ UNCHANGED <<wf, retries, cancelled, cancelAt, schemaErr, tweetForReal, unmapped,
                 written,
                 fetchGap>>
  /\ UNCHANGED <<history, reinvoked, performed, lost, liveOut>>
  /\ UNCHANGED <<svars, lvars>>

ReplayInit ==
  WorkflowInit /\ wf = "bls" /\ DryRun /\ AllMapped /\ ReplayIdle /\ SchemaIdle /\ LibIdle

ReplayNext ==
  \/ Replay
  \/ Live
  \/ LiveRetry
  \/ Crash

ReplaySpec == ReplayInit /\ [][ReplayNext]_vars

\* ------------------------------------------------------ schema generation
Fields == 1..MaxFields

\* A struct type: its fields, and those tagged jsonschema:"required".
Contracts ==
  {c \in [fields : SUBSET Fields, tagged : SUBSET Fields] : c.tagged \subseteq c.fields}

RECURSIVE Sorted(_)
\* The elements of a set of numbers in increasing order.
Sorted(s) ==
  IF s = {} THEN <<>>
  ELSE LET m == CHOOSE x \in s : \A y \in s : x <= y
       IN  <<m>> \o Sorted(s \ {m})

Range(q) == {q[n] : n \in DOMAIN q}

\* Every order in which the elements of s can be listed.
Orders(s) == {q \in [1..Cardinality(s) -> s] : Range(q) = s}

\* r.Reflect(schemaType) marshalled into schemaMap, with
\* RequiredFromJSONSchemaTags: the properties are the fields, and the
\* required key is present only when some field is tagged required, listing
\* the tagged fields in declaration order.
Reflect(c) ==
  [generated |-> TRUE, properties |-> c.fields, hasRequired |-> c.tagged # {},
   required |-> Sorted(c.tagged)]

\* Mutant of GenerateSchemaFromType: the reflected schema is returned as is.
GenerateSchemaFromTypeAsReflected(c) == {Reflect(c)}

\* The maps GenerateSchemaFromType can return for struct type c: when the
\* reflected schema has properties and no required key, required becomes the
\* names of all properties in the iteration order of a Go map, which is not
\* fixed.
GenerateSchemaFromType(c) ==
  LET s == Reflect(c)
  IN  IF s.properties # {} /\ ~s.hasRequired
        THEN {[s EXCEPT !.hasRequired = TRUE, !.required = q] : q \in Orders(s.properties)}
        ELSE {s}

Generate ==
  /\ ~schema.generated
  /\ \E s \in GenerateSchemaFromType(contract) : schema' = s
  /\ UNCHANGED <<contract, schemaTexts, wvars, rvars, lvars>>

SchemaInit ==
  /\ WorkflowInit /\ wf = "bls" /\ ~schemaErr /\ DryRun /\ AllMapped
  /\ ReplayIdle /\ LibIdle
  /\ contract \in Contracts
  /\ schema = NoSchema
  /\ schemaTexts = <<>>

SchemaNext == Generate

SchemaSpec == SchemaInit /\ [][SchemaNext]_vars

\* json.MarshalIndent(schema, "", "  ") of a schema map: the keys of an object
\* are written in sorted order, the elements of a list in the list's order.
MarshalIndent(s) ==
  [properties |-> Sorted(s.properties),
   required |-> IF s.hasRequired THEN <<s.required>> ELSE <<>>]

\* The texts llm.GenerateSchema can return for struct type c.
GenerateSchema(c) == {MarshalIndent(s) : s \in GenerateSchemaFromType(c)}

\* The workflow code calls llm.GenerateSchema on the same struct type once in
\* the original execution and once more in a replay.
GenerateText ==
  /\ Len(schemaTexts) < 2
  /\ \E t \in GenerateSchema(contract) : schemaTexts' = Append(schemaTexts, t)
  /\ UNCHANGED <<contract, schema, wvars, rvars, lvars>>

TextInit ==
  /\ WorkflowInit /\ wf = "bls" /\ ~schemaErr /\ DryRun /\ AllMapped
  /\ ReplayIdle /\ LibIdle
  /\ contract \in Contracts
  /\ schema = NoSchema
  /\ schemaTexts = <<>>

TextNext == GenerateText

TextSpec == TextInit /\ [][TextNext]_vars

\* ------------------------------------------------------------ package bls
\* The functions of pkg/bls called on their own.  No workflow runs.
NoWorkflow ==
  /\ WorkflowInit /\ wf = "bls" /\ ~schemaErr /\ DryRun /\ AllMapped
  /\ ReplayIdle /\ SchemaIdle

\* Instants are counted in quarters of a minute from the moment FindEvents
\* reads the clock: negative instants are past, positive ones future.
PerMinute == 4

Instants == (-5) .. 1

Starts == {NoStart} \cup {[set |-> TRUE, at |-> t] : t \in Instants}

\* mins, in quarters of a minute: 0, 0.25, 0.5, ... , 1.5 minutes.
Mins == 0 .. 6

Chars == {" ", "c", "x"}

\* The summaries with a release URL: "c" stands for the keys of the map.
eventMappings == {<<"c">>}

Mapped == <<"c">>

Unmapped == <<"x">>

SeqsUpTo(S, n) == UNION {[1..m -> S] : m \in 0..n}

FeedEvents == [summary : {Mapped, Unmapped}, start : Starts]

Feeds == SeqsUpTo(FeedEvents, MaxFeed)

\* time.Duration(mins): the conversion of a float64 to an int64 count of
\* nanoseconds drops the fraction, so only the whole minutes of mins remain.
Duration(mins) == mins \div PerMinute

\* The same without the truncation: mins minutes as a duration.
DurationExact(mins) == mins

\* cutoffTime := time.Now().Add(-time.Duration(mins) * time.Minute), the clock
\* reading 0.
CutoffTime(mins) == 0 - Duration(mins) * PerMinute

Recent(event, mins) ==
  /\ event.start.set
  /\ event.start.at > CutoffTime(mins)
  /\ event.start.at < 0

RECURSIVE RecentEvents(_, _)
RecentEvents(allEvents, mins) ==
  IF allEvents = <<>> THEN <<>>
  ELSE (IF Recent(Head(allEvents), mins) THEN <<Head(allEvents)>> ELSE <<>>)
         \o RecentEvents(Tail(allEvents), mins)

\* bls.FindEvents(mins): GetAllEvents fails, or the recent events of the feed
\* are returned.
FindEvents ==
  /\ ~find.called
  /\ \E ok \in BOOLEAN :
       find' = [find EXCEPT !.called = TRUE, !.failed = ~ok,
                  !.out = IF ok THEN RecentEvents(find.feed, find.mins)
                          ELSE <<>>]
  /\ UNCHANGED <<wvars, rvars, svars, fetch, extract, completion, paging,
                 thread, collect>>

RECURSIVE TrimLeft(_)
TrimLeft(s) ==
  IF s # <<>> /\ Head(s) = " " THEN TrimLeft(Tail(s)) ELSE s

RECURSIVE TrimRight(_)
TrimRight(s) ==
  IF s # <<>> /\ s[Len(s)] = " " THEN TrimRight(SubSeq(s, 1, Len(s) - 1))
  ELSE s

\* strings.TrimSpace
TrimSpace(s) == TrimRight(TrimLeft(s))

\* What the server does with the GET: the status it answers with ("none": the
\* request fails, "unreadable": 200 with a body that cannot be read), and for a
\* 403 whether the release is still to be published or is not public at all.
Servers ==
  {[status |-> "200", release |-> "published"],
   [status |-> "unreadable", release |-> "published"],
   [status |-> "403", release |-> "pending"],
   [status |-> "403", release |-> "withdrawn"],
   [status |-> "500", release |-> "published"],
   [status |-> "none", release |-> "published"]}

\* The same with the request made before the mapping is looked up.
FetchReleaseHTMLEager(event, server, now) ==
  [err |-> IF TrimSpace(event.summary) \notin eventMappings
           THEN "no mapping for event" ELSE "",
   requests |-> 1]

\* bls.FetchReleaseHTML(event) at the instant now: its error ("": none) and the
\* number of HTTP requests it made.
FetchReleaseHTML(event, server, now) ==
  IF TrimSpace(event.summary) \notin eventMappings
  THEN [err |-> "no mapping for event", requests |-> 0]
  ELSE [err |->
          CASE server.status = "none" -> "failed to fetch HTML"
            [] server.status = "403" ->
                 IF event.start.set /\ event.start.at > now
                 THEN "release not yet available"
                 ELSE "access forbidden"
            [] server.status = "500" -> "bad status"
            [] server.status = "unreadable" -> "failed to read response body"
            [] OTHER -> "",
        requests |-> 1]

Fetch(event, discovered, server, now) ==
  /\ ~fetch.called
  /\ LET r == FetchReleaseHTML(event, server, now)
     IN fetch' = [event |-> event, discovered |-> discovered,
                  server |-> server, at |-> now, called |-> TRUE,
                  err |-> r.err, requests |-> r.requests]

\* FetchReleaseHTML called, as the workflow does, with an event FindEvents
\* returned, at that instant or later.
FetchDiscovered ==
  /\ find.called
  /\ \E n \in DOMAIN find.out, server \in Servers, now \in {0, 1} :
       Fetch(find.out[n], TRUE, server, now)
  /\ UNCHANGED <<wvars, rvars, svars, find, extract, completion, paging,
                 thread, collect>>

FindInit ==
  /\ NoWorkflow
  /\ thread = NoThread /\ collect = NoCollect
  /\ \E feed \in Feeds, mins \in Mins :
       find = [NoFind EXCEPT !.feed = feed, !.mins = mins]
  /\ fetch = NoFetch
  /\ extract = NoExtract
  /\ completion = NoCompletion /\ paging = NoPaging

FindNext == FindEvents \/ FetchDiscovered

FindSpec == FindInit /\ [][FindNext]_vars

\* FetchReleaseHTML called with any event.
Summaries == SeqsUpTo(Chars, MaxSummary)

FetchDirect ==
  /\ \E server \in Servers : Fetch(fetch.event, FALSE, server, 0)
  /\ UNCHANGED <<wvars, rvars, svars, find, extract, completion, paging,
                 thread, collect>>

FetchInit ==
  /\ NoWorkflow
  /\ thread = NoThread /\ collect = NoCollect
  /\ find = NoFind
  /\ \E summary \in Summaries, start \in Starts :
       fetch = [NoFetch EXCEPT !.event = [summary |-> summary, start |-> start]]
  /\ extract = NoExtract
  /\ completion = NoCompletion /\ paging = NoPaging

FetchNext == FetchDirect

FetchSpec == FetchInit /\ [][FetchNext]_vars

\* ExtractSummary.  The parsed document is a sequence of elements in document
\* order; an element is a <pre> or not and has a text.
Separator == [n \in 1..10 |-> "_"]

Pieces == {<<"a">>, [n \in 1..9 |-> "_"], Separator}

RECURSIVE Concat(_)
Concat(ss) == IF ss = <<>> THEN <<>> ELSE Head(ss) \o Concat(Tail(ss))

Texts == {Concat(ps) : ps \in SeqsUpTo(Pieces, MaxParts)}

Elements ==
  {[pre |-> FALSE, text |-> <<"a">>]} \cup {[pre |-> TRUE, text |-> t] : t \in Texts}

Docs == SeqsUpTo(Elements, MaxNodes)

\* doc.Find("pre").Text(): the texts of the <pre> elements, concatenated.
RECURSIVE PreText(_)
PreText(doc) ==
  IF doc = <<>> THEN <<>>
  ELSE (IF Head(doc).pre THEN Head(doc).text ELSE <<>>) \o PreText(Tail(doc))

\* The offsets at which sep occurs in s.
Occurrences(s, sep) ==
  {k \in 0 .. (Len(s) - Len(sep)) : SubSeq(s, k + 1, k + Len(sep)) = sep}

\* strings.Index
Index(s, sep) ==
  IF Occurrences(s, sep) = {} THEN -1
  ELSE CHOOSE k \in Occurrences(s, sep) : \A l \in Occurrences(s, sep) : k <= l

\* strings.LastIndex
LastIndex(s, sep) ==
  IF Occurrences(s, sep) = {} THEN -1
  ELSE CHOOSE k \in Occurrences(s, sep) : \A l \in Occurrences(s, sep) : k >= l

\* The same cutting at the last separator.
ExtractSummaryAtLast(doc) ==
  IF \A n \in DOMAIN doc : ~doc[n].pre
  THEN [err |-> "no <pre> tag found in document", out |-> <<>>]
  ELSE LET summary == PreText(doc)
           idx == LastIndex(summary, Separator)
       IN IF idx # -1 THEN [err |-> "", out |-> SubSeq(summary, 1, idx)]
          ELSE [err |-> "", out |-> summary]

\* bls.ExtractSummary(html), html parsed into doc.
ExtractSummary(doc) ==
  IF \A n \in DOMAIN doc : ~doc[n].pre
  THEN [err |-> "no <pre> tag found in document", out |-> <<>>]
  ELSE LET summary == PreText(doc)
           idx == Index(summary, Separator)
       IN IF idx # -1 THEN [err |-> "", out |-> SubSeq(summary, 1, idx)]
          ELSE [err |-> "", out |-> summary]

Extract ==
  /\ ~extract.called
  /\ LET r == ExtractSummary(extract.doc)
     IN extract' = [extract EXCEPT !.called = TRUE, !.err = r.err, !.out = r.out]
  /\ UNCHANGED <<wvars, rvars, svars, find, fetch, completion, paging,
                 thread, collect>>

ExtractInit ==
  /\ NoWorkflow
  /\ thread = NoThread /\ collect = NoCollect
  /\ find = NoFind
  /\ fetch = NoFetch
  /\ \E doc \in Docs : extract = [NoExtract EXCEPT !.doc = doc]
  /\ completion = NoCompletion /\ paging = NoPaging

ExtractNext == Extract

ExtractSpec == ExtractInit /\ [][ExtractNext]_vars

\* ------------------------------------------------------------ package llm
\* The schema argument: the JSON text of an object, the text "null", the text
\* of an array, text that is not JSON, the empty string.
Schemas == {"object", "null", "array", "malformed", ""}

\* json.Unmarshal([]byte(schema), &schemaMap) succeeds: on an object, and on
\* null, which leaves the map nil.
UnmarshalsToMap(s) == s \in {"object", "null"}

\* What the server does with one HTTP request: a completion with content, one
\* with empty content, one without choices, an error status, no connection.
Answers == {"content", "empty", "nochoices", "400", "429", "500", "none"}

\* The client library sends a request again after a connection error and
\* after 408, 409, 429 and 5xx, twice at most by default.
ClientMaxRetries == 2

Retryable(a) == a \in {"429", "500", "none"}

\* The requests client.Chat.Completions.New sends when the server's answers
\* are as, in order: up to the first answer that is not retried.
Sent(as) ==
  LET final == {k \in DOMAIN as : ~Retryable(as[k])}
  IN IF final = {} THEN Len(as)
     ELSE CHOOSE k \in final : \A l \in final : k <= l

\* The same without the check of the choices and of the content.
CompleteWithSchemaUnchecked(s, as) ==
  IF ~UnmarshalsToMap(s)
  THEN [requests |-> 0, err |-> "failed to unmarshal schema string to map",
        content |-> ""]
  ELSE LET n == Sent(as)
       IN [requests |-> n,
           err |-> IF as[n] \in {"400", "429", "500", "none"}
                   THEN "chat completion request failed"
                   ELSE "",
           content |-> IF as[n] = "content" THEN "content" ELSE ""]

\* The same with the request sent before the schema is unmarshalled.
CompleteWithSchemaRequestFirst(s, as) ==
  LET n == Sent(as)
  IN [requests |-> n,
      err |-> IF ~UnmarshalsToMap(s)
              THEN "failed to unmarshal schema string to map"
              ELSE IF as[n] \in {"400", "429", "500", "none"}
              THEN "chat completion request failed"
              ELSE IF as[n] \in {"empty", "nochoices"} THEN "LLMResponseError"
              ELSE "",
      content |-> IF UnmarshalsToMap(s) /\ as[n] = "content" THEN "content"
                  ELSE ""]

\* llm.CompleteWithSchema: the HTTP requests it causes, its error ("": none)
\* and its content.
CompleteWithSchema(s, as) ==
  IF ~UnmarshalsToMap(s)
  THEN [requests |-> 0, err |-> "failed to unmarshal schema string to map",
        content |-> ""]
  ELSE LET n == Sent(as)
       IN [requests |-> n,
           err |-> IF as[n] \in {"400", "429", "500", "none"}
                   THEN "chat completion request failed"
                   ELSE IF as[n] \in {"empty", "nochoices"}
                   THEN "LLMResponseError"
                   ELSE "",
           content |-> IF as[n] = "content" THEN "content" ELSE ""]

Complete ==
  /\ ~completion.called
  /\ LET r == CompleteWithSchema(completion.schema, completion.answers)
     IN completion' = [completion EXCEPT !.called = TRUE,
                         !.requests = r.requests, !.err = r.err,
                         !.content = r.content]
  /\ UNCHANGED <<wvars, rvars, svars, find, fetch, extract, paging,
                 thread, collect>>

CompleteInit ==
  /\ NoWorkflow
  /\ thread = NoThread /\ collect = NoCollect
  /\ find = NoFind /\ fetch = NoFetch /\ extract = NoExtract
  /\ paging = NoPaging
  /\ \E s \in Schemas, as \in [1 .. (ClientMaxRetries + 1) -> Answers] :
       completion = [NoCompletion EXCEPT !.schema = s, !.answers = as]

CompleteNext == Complete

CompleteSpec == CompleteInit /\ [][CompleteNext]_vars

\* ------------------------------------------------------- ArXiv API paging
\* GetArxivPapersBySubmissionDate.  The entries of the result set are numbered
\* from 0 in server order; the clock counts seconds from the call.
maxResults == 100

SleepSeconds == 3

\* The sizes of the result set.
Totals == {p * maxResults + r : p \in 0 .. MaxPages, r \in {0, 1, 50}}

\* The number of entries the server may return for a request at offset start:
\* all it has up to max_results, or fewer.
PageLens(total, start) ==
  LET avail == Max(0, total - start)
      full == IF avail < maxResults THEN avail ELSE maxResults
  IN {n \in {0, 50, full} : n <= full}

\* The same without a wait.
SleepNever(start) == 0

\* fetchArxivPage: time.Sleep(3 * time.Second) unless this is the first request.
Sleep(start) == IF start > 0 THEN SleepSeconds ELSE 0

\* The same with the next request sent from the same offset.
NextStartSame(start) == start

\* start += maxResults
NextStart(start) == start + maxResults

\* The loop's test after a page of n entries from offset start of a result
\* set reported to hold total entries.
LastPage(start, n, total) == start + n >= total \/ n = 0

\* One turn of the loop: fetchArxivPage sleeps, sends the request, which takes
\* d seconds and fails or returns n entries from offset start and reports
\* total results; then the loop returns or moves start on.
Turn(ok, n, total, d) ==
  LET sent == paging.clock + Sleep(paging.start)
      entries == [k \in 1..n |-> paging.start + k - 1]
      last == LastPage(paging.start, n, total)
  IN IF ~ok
     THEN [paging EXCEPT !.requests = Append(@, sent),
                         !.clock = sent + d,
                         !.allEntries = <<>>,
                         !.returned = TRUE, !.err = TRUE]
     ELSE [paging EXCEPT !.requests = Append(@, sent),
                         !.clock = sent + d,
                         !.total = total,
                         !.allEntries = @ \o entries,
                         !.returned = last,
                         !.start = IF last THEN @ ELSE NextStart(@)]

\* A turn against a server that holds paging.total entries and returns those
\* from offset start on, or fewer.
FetchPage ==
  /\ ~paging.returned
  /\ \E ok \in BOOLEAN, n \in PageLens(paging.total, paging.start),
        d \in {0, 1} :
       paging' = Turn(ok, n, paging.total, d)
  /\ UNCHANGED <<wvars, rvars, svars, find, fetch, extract, completion,
                 thread, collect>>

PagingInit ==
  /\ NoWorkflow
  /\ thread = NoThread /\ collect = NoCollect
  /\ find = NoFind /\ fetch = NoFetch /\ extract = NoExtract
  /\ completion = NoCompletion
  /\ \E total \in Totals : paging = [NoPaging EXCEPT !.total = total]

PagingNext == FetchPage

PagingSpec == PagingInit /\ [][PagingNext]_vars

\* The call before the first response.
AnyPagingInit ==
  /\ NoWorkflow
  /\ thread = NoThread /\ collect = NoCollect
  /\ find = NoFind /\ fetch = NoFetch /\ extract = NoExtract
  /\ completion = NoCompletion
  /\ paging = NoPaging

\* A turn against a server that answers every request as it likes: with any
\* number of entries up to max_results and any total up to the largest of
\* Totals.  No call sends more than MaxPages + 2 requests.
FetchAnyPage ==
  /\ ~paging.returned
  /\ Len(paging.requests) < MaxPages + 2
  /\ \E ok \in BOOLEAN, n \in {0, 1, 50, maxResults}, total \in Totals :
       paging' = Turn(ok, n, total, 0)
  /\ UNCHANGED <<wvars, rvars, svars, find, fetch, extract, completion,
                 thread, collect>>

AnyPagingNext == FetchAnyPage

\* Every request is answered or fails in finite time.
PagingLiveSpec ==
  AnyPagingInit /\ [][AnyPagingNext]_vars /\ WF_vars(FetchAnyPage)

\* ---------------------------------------------------------- twitter client
\* twitterClient.PostTweetThread.  A posted tweet is its text, the id it
\* replies to (NoID: none) and the id the server gave it.
ThreadPause == 5

Threads == SeqsUpTo({"a", "b"}, MaxThread)

TweetIDs == 1 .. (MaxThread + 1)

\* How a call of PostTweet ends: with the new tweet's id, with the error of
\* CreateTweet, or with 'twitter API returned an empty tweet object'.
PostOutcomes == {"ok", "error", "empty"}

\* The same going on with the next text after a failed post.
PostTweetThreadStepContinues(t, outcome, id) ==
  LET last == t.next = Len(t.texts)
  IN IF outcome # "ok"
     THEN [t EXCEPT !.calls = @ + 1, !.next = @ + 1, !.returned = last,
                    !.err = TRUE]
     ELSE [t EXCEPT !.calls = @ + 1,
                    !.posted = Append(@, [text |-> t.texts[t.next],
                                          replyTo |-> t.previousTweetID,
                                          id |-> id]),
                    !.previousTweetID = id,
                    !.next = @ + 1,
                    !.clock = IF last THEN @ ELSE @ + ThreadPause,
                    !.returned = last]

\* One turn of the loop of PostTweetThread: PostTweet(text, previousTweetID)
\* ends with outcome; on an error the function returns it, otherwise the new
\* id is kept and, unless this was the last text, the loop sleeps.
PostTweetThreadStep(t, outcome, id) ==
  LET last == t.next = Len(t.texts)
  IN IF outcome # "ok"
     THEN [t EXCEPT !.calls = @ + 1, !.returned = TRUE, !.err = TRUE]
     ELSE [t EXCEPT !.calls = @ + 1,
                    !.posted = Append(@, [text |-> t.texts[t.next],
                                          replyTo |-> t.previousTweetID,
                                          id |-> id]),
                    !.previousTweetID = id,
                    !.next = @ + 1,
                    !.clock = IF last THEN @ ELSE @ + ThreadPause,
                    !.returned = last]

ThreadFrame ==
  UNCHANGED <<wvars, rvars, svars, find, fetch, extract, completion, paging,
              collect>>

\* if len(texts) == 0: 'no tweets provided in the thread'.
ThreadEmpty ==
  /\ ~thread.returned
  /\ thread.texts = <<>>
  /\ thread' = [thread EXCEPT !.returned = TRUE, !.err = TRUE]
  /\ ThreadFrame

ThreadPost ==
  /\ ~thread.returned
  /\ thread.texts # <<>>
  /\ \E outcome \in PostOutcomes,
        id \in TweetIDs \ {thread.posted[n].id : n \in DOMAIN thread.posted} :
       thread' = PostTweetThreadStep(thread, outcome, id)
  /\ ThreadFrame

ThreadInit ==
  /\ NoWorkflow
  /\ find = NoFind /\ fetch = NoFetch /\ extract = NoExtract
  /\ completion = NoCompletion /\ paging = NoPaging /\ collect = NoCollect
  /\ \E texts \in Threads : thread = [NoThread EXCEPT !.texts = texts]

ThreadNext == ThreadEmpty \/ ThreadPost

ThreadSpec == ThreadInit /\ [][ThreadNext]_vars

\* ------------------------------------------------- GetAllEvents collector
\* bls.GetAllEvents from `go func()` on.  collect.parser is the state of the
\* parser's output channel, collect.collector the collector goroutine's
\* position (range: receiving from outputChan; append: holding a received
\* event it has not appended yet; send: at `done <- true`; exit), and
\* collect.caller the caller's (select; read: after the select, before it
\* reads icsEvents; returned).
IcsFeeds == SeqsUpTo({"a", "b"}, MaxIcs)

\* What the caller's read of icsEvents can give.  While the collector is
\* appending, the read is unsynchronised with the write: the caller sees the
\* slice before the append, the slice after it, or a slice header of which
\* only a part is written.
Observations ==
  IF collect.collector = "append"
  THEN {[read |-> collect.icsEvents, torn |-> FALSE],
        [read |-> Append(collect.icsEvents, collect.event), torn |-> FALSE],
        [read |-> collect.icsEvents, torn |-> TRUE]}
  ELSE {[read |-> collect.icsEvents, torn |-> FALSE]}

CollectFrame ==
  UNCHANGED <<wvars, rvars, svars, find, fetch, extract, completion, paging,
              thread>>

\* `for event := range outputChan`: the parser hands over its next event.
Receive ==
  /\ collect.parser = "open" /\ collect.collector = "range"
  /\ collect.emitted < Len(collect.feed)
  /\ collect' = [collect EXCEPT !.emitted = @ + 1,
                                !.event = collect.feed[collect.emitted + 1],
                                !.collector = "append"]
  /\ CollectFrame

\* icsEvents = append(icsEvents, event)
AppendEvent ==
  /\ collect.collector = "append"
  /\ collect' = [collect EXCEPT !.icsEvents = Append(@, collect.event),
                                !.collector = "range"]
  /\ CollectFrame

\* The parser closes its output channel after its last event.
CloseChan ==
  /\ collect.parser = "open"
  /\ collect.emitted = Len(collect.feed)
  /\ collect' = [collect EXCEPT !.parser = "closed"]
  /\ CollectFrame

\* The range loop ends on the closed channel.
EndRange ==
  /\ collect.parser = "closed" /\ collect.collector = "range"
  /\ collect' = [collect EXCEPT !.collector = "send"]
  /\ CollectFrame

\* `done <- true` meets `case <-done`: done is unbuffered, so the send
\* completes only while the caller is receiving.
Handoff ==
  /\ collect.collector = "send" /\ collect.caller = "select"
  /\ collect' = [collect EXCEPT !.collector = "exit", !.caller = "read",
                                !.via = "done"]
  /\ CollectFrame

\* `case <-time.After(2 * time.Second)`: the caller goes on without the
\* collector.
Timeout ==
  /\ collect.caller = "select"
  /\ collect' = [collect EXCEPT !.caller = "read", !.via = "timeout"]
  /\ CollectFrame

\* len(icsEvents) and `for _, icsEvent := range icsEvents`: the caller reads
\* the list and returns.
Read ==
  /\ collect.caller = "read"
  /\ \E o \in Observations :
       collect' = [collect EXCEPT !.caller = "returned", !.read = o.read,
                                  !.torn = o.torn]
  /\ CollectFrame

CollectInit ==
  /\ NoWorkflow
  /\ find = NoFind /\ fetch = NoFetch /\ extract = NoExtract
  /\ completion = NoCompletion /\ paging = NoPaging /\ thread = NoThread
  /\ \E f \in IcsFeeds :
       collect = [NoCollect EXCEPT !.feed = f, !.parser = "open",
                                   !.collector = "range", !.caller = "select"]

CollectNext ==
  \/ Receive
  \/ AppendEvent
  \/ CloseChan
  \/ EndRange
  \/ Handoff
  \/ Timeout
  \/ Read

CollectSpec == CollectInit /\ [][CollectNext]_vars

\* Every goroutine that can take a step takes one, the parser closes its
\* channel, and the timer fires while the caller waits.
CollectLiveSpec == CollectInit /\ [][CollectNext]_vars /\ WF_vars(CollectNext)

\* ------------------------------------------------------------------ claims
Items == 1..Len(events)

\* The items of the returned list, in the order returned.
ReturnedItems ==
  IF wf = "bls" THEN [n \in 1..Len(retOut) |-> retOut[n].item] ELSE retOut

\* Nothing was done for item k: the loop has not reached it.
Untouched(k) == status[k].state = "Discovered" /\ i < k

OnlyDiscoveryInvoked ==
  /\ \A n \in DOMAIN trace : trace[n].stage = DiscoverStage(wf) /\ trace[n].item = 0
  /\ posts = <<>>

\* C1: in BLSReleaseSummaryWorkflow, once discovery has succeeded the run never
\* returns an error whatever item stages fail, and when the run has returned
\* every discovered item has been processed (the loop reached it and it ended
\* Published or Skipped).
C1_ItemFailuresNeverAbort ==
  (wf = "bls" /\ discovery = "ok") =>
    /\ ~retErr
    /\ (pc = "done") =>
         \A k \in Items :
           /\ status[k].state \in {"Published", "Skipped"}
           /\ ~Untouched(k)

\* C1 witness: a finished run in which an item was skipped and a later item
\* was published.
C1_Witness ==
  /\ wf = "bls" /\ pc = "done" /\ ~retErr
  /\ \E j, k \in Items : j < k /\ status[j].state = "Skipped" /\ status[k].state = "Published"

OnlyFetchFailures ==
  /\ pc = "done" /\ discovery = "ok"
  /\ \A k \in Items : status[k].failed = "fetch" \/ status[k].state \in {"Published", "Kept"}

NotFetchFailed(k) == status[k].failed # "fetch"

C4_DiscoveryFailureAborts ==
  (discovery = "failed") =>
    /\ pc = "done" /\ retErr /\ retOut = <<>>
    /\ twtsums = <<>> /\ ids = <<>>
    /\ OnlyDiscoveryInvoked

\* C4 witness: a run whose discovery failed, after a retried attempt.
C4_Witness == discovery = "failed" /\ pc = "done" /\ attempt = 2

\* C5: when discovery succeeds with no items the run has returned an empty
\* list and no error, and nothing but the discovery activity was invoked.
C5_EmptyDiscovery ==
  (discovery = "ok" /\ Len(events) = 0) =>
    /\ pc = "done" /\ ~retErr /\ retOut = <<>>
    /\ OnlyDiscoveryInvoked

\* C5 witness: a successful discovery of zero items.
C5_Witness == discovery = "ok" /\ Len(events) = 0 /\ pc = "done"

\* C6 as stated: no stage of an item is invoked twice: the activity calls made
\* for an item are pairwise different (items are processed one after the
\* other, so a stage of an item can only be invoked again while the loop is
\* at that item).
C6_AtMostOnce ==
  \A m, n \in DOMAIN trace :
    (m # n /\ trace[m].item > 0 /\ trace[m].stage \in ActivityStages) => trace[m] # trace[n]

\* C7: publish attempts happen in discovery order, and the tweets collected
\* and returned are in discovery order of their items.
C7_DiscoveryOrder ==
  /\ \A m, n \in DOMAIN posts : m < n => posts[m].item <= posts[n].item
  /\ \A m, n \in DOMAIN twtsums : m < n => twtsums[m].item < twtsums[n].item
  /\ \A m, n \in DOMAIN ReturnedItems : m < n => ReturnedItems[m] < ReturnedItems[n]
  /\ (wf = "bls" /\ pc = "done") => retOut = twtsums

\* C7 witness: a finished BLS run that published and returned two items.
C7_Witness ==
  /\ wf = "bls" /\ pc = "done" /\ Len(retOut) >= 2 /\ Len(posts) >= 2

\* C8: at every point of a BLS run there are no more outputs than items, no
\* item has two outputs, every output is the tweet of an item whose publish
\* activity was invoked and returned success, and no skipped item has one.
C8_OutputsArePublishedItems ==
  (wf = "bls") =>
    /\ Len(twtsums) <= Len(events)
    /\ \A m, n \in DOMAIN twtsums : m # n => twtsums[m].item # twtsums[n].item
    /\ \A n \in DOMAIN twtsums :
         /\ twtsums[n].item \in Items
         /\ status[twtsums[n].item].state = "Published"
         /\ \E m \in DOMAIN posts : posts[m].item = twtsums[n].item
    /\ \A k \in Items : status[k].state = "Skipped" =>
         \A n \in DOMAIN twtsums : twtsums[n].item # k
    /\ (pc = "done") => retOut = twtsums

\* C8 witness: a finished run with an output and an item whose publish failed.
C8_Witness ==
  /\ wf = "bls" /\ pc = "done" /\ Len(retOut) >= 1
  /\ \E k \in Items : status[k] = St("Skipped", "publish")

\* C9: every publish attempt after the first comes at least 5 seconds after
\* the previous one.
C9_PublishGap ==
  \A n \in DOMAIN posts :
    IF n = 1 THEN posts[n].gap = NoPost ELSE posts[n].gap >= BLSInterval

\* C9 witness: items 1 and 3 are published with item 2 skipped in between.
C9_Witness ==
  /\ Len(posts) = 2 /\ posts[1].item = 1 /\ posts[2].item = 3
  /\ status[2].state = "Skipped"

\* The first attempt of the first publish of the run has just been scheduled.
FirstPublish == wf = "bls" /\ pc = "post" /\ attempt = 1 /\ Len(posts) = 1

\* C10 as stated: the first publish of a run is not delayed by the pacing
\* wait: no time passes between the start of its timer.Get and the publish.
C10_Original == FirstPublish => elapsed = waitFrom

\* C10 amended: the pacing wait before the first publish blocks like any
\* other, for max(0, 5 - seconds since the item's processing began): the
\* first publish is undelayed only when the item's earlier stages took at
\* least 5 seconds.
C10_FirstWaitBlocks ==
  FirstPublish => elapsed - waitFrom = Max(0, BLSInterval - waitFrom)

\* C10 witness: the first publish of a run was held back by the pacing wait.
C10_Witness == FirstPublish /\ waitFrom < BLSInterval /\ elapsed > waitFrom

MeetsTweetContract(r) ==
  ~r.empty /\ r.json /\ r.has /\ r.chars >= 1 /\ r.chars <= MaxTweetLen

\* The latest reply was for item k.
ReplyOf(k) == lastResp.item = k /\ ~lastResp.r.empty

\* C13: in a BLS run the tweet handed to PostTweetActivity is the tweet field
\* of the item's parsed reply, non-empty and of at most 280 characters, and
\* so is every tweet in the output; an item whose reply does not parse, has
\* no tweet, has an empty tweet or has a tweet of 281 characters is never
\* handed to PostTweetActivity and ends Skipped.
C13_TweetContract ==
  (wf = "bls") =>
    /\ (pc = "post") =>
         /\ ReplyOf(i) /\ MeetsTweetContract(lastResp.r)
         /\ twttxt = [item |-> i, len |-> lastResp.r.len, chars |-> lastResp.r.chars]
    /\ \A n \in DOMAIN twtsums :
         /\ twtsums[n].chars >= 1 /\ twtsums[n].chars <= MaxTweetLen
         /\ ReplyOf(twtsums[n].item) =>
              (MeetsTweetContract(lastResp.r) /\ twtsums[n].chars = lastResp.r.chars)
    /\ \A k \in Items :
         (ReplyOf(k) /\ ~MeetsTweetContract(lastResp.r)) =>
           /\ status[k].state \notin {"Validated", "Published"}
           /\ \A n \in DOMAIN posts : posts[n].item # k
           /\ \A n \in DOMAIN twtsums : twtsums[n].item # k
           /\ (k < i \/ pc = "done") => status[k].state = "Skipped"

\* C13 witness: the first item was published, and the second has just been
\* skipped because its reply carried a tweet of 281 characters.
C13_Witness ==
  /\ wf = "bls" /\ Len(twtsums) = 1 /\ status[1].state = "Published"
  /\ ReplyOf(2) /\ lastResp.r.chars = MaxTweetLen + 1
  /\ status[2] = St("Skipped", "validate")

\* C14 as stated: validation counts characters, so no item whose reply
\* carries a tweet of 1 to 280 characters is dropped by validation.
C14_CountsCharacters ==
  (wf = "bls") =>
    \A k \in Items :
      (ReplyOf(k) /\ MeetsTweetContract(lastResp.r)) => status[k].failed # "validate"

\* C15: the schema GenerateSchemaFromType returns for a struct type with
\* fields of which none is tagged required lists exactly all fields as
\* required, each once; for a type with tagged fields the required list is
\* the reflected one, the tagged fields.
C15_RequiredDefault ==
  schema.generated =>
    /\ schema.properties = contract.fields
    /\ (contract.fields # {} /\ contract.tagged = {}) =>
         /\ schema.hasRequired
         /\ Range(schema.required) = contract.fields
         /\ Len(schema.required) = Cardinality(contract.fields)
    /\ (contract.tagged # {}) =>
         /\ schema.hasRequired
         /\ schema.required = Reflect(contract).required
         /\ Range(schema.required) = contract.tagged

\* C15 witness: a schema generated for a type with two or more fields and no
\* required tag.
C15_Witness ==
  /\ schema.generated /\ contract.tagged = {} /\ Cardinality(contract.fields) >= 2

\* C16 as stated: in PaperOfTheDayWorkflow a reply that parses as JSON but
\* has no keep field is a failure of the item, never a decision not to keep.
C16_MissingKeepFails ==
  (wf = "arxiv") =>
    \A k \in Items :
      (ReplyOf(k) /\ lastResp.r.json /\ ~lastResp.r.has) => status[k].state = "Failed"

\* Position of a trace event in the order of the loop body.
StageRank(s) ==
  CASE s = "timer" -> 0
    [] s = "fetch" -> 1
    [] s = "extract" -> 2
    [] s = "complete" -> 3
    [] s = "wait" -> 4
    [] s = "post" -> 5
    [] OTHER -> 0

\* How many stages of its pipeline an item in the given state has passed.
StateRank(st) ==
  CASE st = "Discovered" -> 0
    [] st = "Fetched" -> 1
    [] st = "Extracted" -> 2
    [] st = "Generated" -> 3
    [] st = "Validated" -> 4
    [] OTHER -> 0 - 1

Invoked(s) == \E n \in DOMAIN trace : trace[n].stage = s

\* The stages of the current item were invoked in the order of the loop
\* body, each only after the earlier ones succeeded.
InStageOrder ==
  /\ \A m, n \in DOMAIN trace : m < n => StageRank(trace[m].stage) <= StageRank(trace[n].stage)
  /\ (pc # "done") =>
       \A n \in DOMAIN trace : StateRank(status[i].state) >= StageRank(trace[n].stage) - 1

\* What the code checks of a reply before the tweet may be posted.
PassesValidation(r) ==
  ~r.empty /\ r.json /\ r.has /\ r.len >= 1 /\ r.len <= MaxTweetLen

\* C17 as stated: the stages of a BLS item run in the order fetch, extract,
\* generate, validate, pacing wait, publish, each only if all earlier ones
\* succeeded: the pacing wait and the publish come only after validation
\* succeeded.
C17_Original ==
  (wf = "bls" /\ i > 0) =>
    /\ InStageOrder
    /\ Invoked("wait") => (ReplyOf(i) /\ PassesValidation(lastResp.r))
    /\ Invoked("post") => (ReplyOf(i) /\ PassesValidation(lastResp.r))

\* C17 amended: the stages of a BLS item run in the order fetch, extract,
\* generate, length check, pacing wait, emptiness check, publish.  A stage
\* is invoked only if the earlier ones succeeded, except that the pacing
\* wait is also performed for an item whose reply parsed but has no tweet or
\* an empty one; such an item is skipped after the wait.  Publish is invoked
\* only for an item whose reply passed every check.
C17_StageOrder ==
  (wf = "bls" /\ i > 0) =>
    /\ InStageOrder
    /\ Invoked("wait") =>
         (ReplyOf(i) /\ ~UnmarshalFails(lastResp.r) /\ lastResp.r.len <= MaxTweetLen)
    /\ Invoked("post") => (ReplyOf(i) /\ PassesValidation(lastResp.r))

\* C17 witness: the publish of an item has been invoked after its fetch,
\* extraction, generation and pacing wait.
C17_Witness ==
  /\ wf = "bls" /\ pc = "post"
  /\ Invoked("fetch") /\ Invoked("extract") /\ Invoked("complete") /\ Invoked("wait")

\* The states in which the loop has left an item behind.
Terminal == IF wf = "bls" THEN {"Published", "Skipped"} ELSE {"Kept", "Dropped"}

C19_Original == cancelled => i = cancelAt.item

\* C19 amended: cancellation takes effect at once.  The Get the workflow is
\* blocked on returns an error without waiting for the activity, nothing is
\* published or added to the output after the request, every later item is
\* begun and fails at its first stage without any activity being started,
\* and BLSReleaseSummaryWorkflow then returns the tweets collected before the
\* request, without error.
C19_CancelAtOnce ==
  cancelled =>
    /\ Len(posts) = cancelAt.posts
    /\ (IF wf = "bls" THEN Len(twtsums) ELSE Len(ids)) = cancelAt.out
    /\ \A k \in Items :
         /\ (k >= cancelAt.item) => status[k].state # "Published"
         /\ (k > cancelAt.item) =>
              status[k] \in {St("Discovered", "none"), St("Skipped", "fetch"), St("Failed", "fetch")}
    /\ (i > cancelAt.item) => (trace = <<>> /\ pending = {})
    /\ (wf = "bls" /\ pc = "done" /\ discovery = "ok") =>
         (~retErr /\ retOut = twtsums /\ Len(retOut) = cancelAt.out)

\* C19 witness: cancellation was requested while the publish of an item was
\* in flight; that item and the later ones were skipped and the run returned
\* without error.
C19_Witness ==
  /\ cancelled /\ wf = "bls" /\ cancelAt.pc = "post" /\ pc = "done" /\ ~retErr
  /\ cancelAt.item < Len(events)
  /\ status[cancelAt.item] = St("Skipped", "publish")
  /\ status[Len(events)] = St("Skipped", "fetch")

\* C20 as stated: in BLSReleaseSummaryWorkflow an item one of whose stages
\* exceeded its timeout is skipped.
C20_TimeoutSkips ==
  (wf = "bls") =>
    \A k \in timeouts : (k \in Items) => status[k].state = "Skipped"

\* C21 as stated: in a BLS run started with TweetForReal set, every tweet of
\* the output list was written to Twitter by PostTweetActivity; in a run
\* started with it unset nothing is written.
C21_ForRealPublishes ==
  /\ tweetForReal => \A n \in DOMAIN twtsums : twtsums[n].item \in written
  /\ ~tweetForReal => written = {}

\* The error FetchReleaseHTML owes for the server's answer to a 403.
ForbiddenAs(release) ==
  IF release = "pending" THEN "release not yet available"
  ELSE "access forbidden"

\* C22 as stated: when the fetch of an item returned by FindEvents is refused
\* with HTTP 403, the error says 'not yet available' when the release is still
\* to be published and 'access forbidden' when it is not public.
C22_DistinguishesForbidden ==
  (fetch.called /\ fetch.discovered /\ fetch.server.status = "403")
    => fetch.err = ForbiddenAs(fetch.server.release)

\* An event of the feed that started strictly within the last mins.
InWindow(event, mins) ==
  /\ event.start.set
  /\ event.start.at > 0 - DurationExact(mins)
  /\ event.start.at < 0

\* s is t with some elements left out: a strictly increasing choice of
\* positions of t gives s.
Selects(pos, s, t) ==
  /\ \A n \in DOMAIN s : pos[n] \in DOMAIN t /\ t[pos[n]] = s[n]
  /\ \A n \in DOMAIN s : n > 1 => pos[n - 1] < pos[n]

\* The positions of the feed whose event is in the window.
WindowPositions(feed, mins) == {n \in DOMAIN feed : InWindow(feed[n], mins)}

\* C23 as stated: FindEvents(mins) returns, in feed order, exactly the events
\* of the feed whose start is set and strictly between now - mins minutes and
\* now, also when mins has a fraction.
C23_FindEventsWindow ==
  (find.called /\ ~find.failed) =>
    /\ Len(find.out) = Cardinality(WindowPositions(find.feed, find.mins))
    /\ \E pos \in [DOMAIN find.out -> DOMAIN find.feed] :
         /\ Selects(pos, find.out, find.feed)
         /\ {pos[n] : n \in DOMAIN find.out}
              = WindowPositions(find.feed, find.mins)

\* C25: FetchReleaseHTML for an event whose trimmed summary has no entry in
\* the mapping returns the error 'no mapping for event' and makes no HTTP
\* request.
C25_NoMappingNoRequest ==
  (fetch.called /\ TrimSpace(fetch.event.summary) \notin eventMappings)
    => fetch.err = "no mapping for event" /\ fetch.requests = 0

C25_Witness ==
  /\ fetch.called
  /\ fetch.event.summary = <<" ", "x">>
  /\ fetch.server.status = "200"

Contains(s, sep) == \E k \in 0 .. (Len(s) - Len(sep)) : SubSeq(s, k + 1, k + Len(sep)) = sep

IsPrefix(s, t) == Len(s) <= Len(t) /\ SubSeq(t, 1, Len(s)) = s

\* C24: ExtractSummary fails with 'no <pre> tag found' when the document has
\* no <pre> element, the empty document included; otherwise it returns the
\* <pre> text cut just before the first separator, or whole when there is
\* none: the result is a prefix of the <pre> text without a separator in it.
C24_ExtractSummary ==
  extract.called =>
    IF \A n \in DOMAIN extract.doc : ~extract.doc[n].pre
    THEN extract.err = "no <pre> tag found in document"
    ELSE LET text == PreText(extract.doc)
         IN /\ extract.err = ""
            /\ IsPrefix(extract.out, text)
            /\ ~Contains(extract.out, Separator)
            /\ IF Contains(text, Separator)
               THEN SubSeq(text, Len(extract.out) + 1,
                           Len(extract.out) + Len(Separator)) = Separator
               ELSE extract.out = text

C24_Witness ==
  /\ extract.called
  /\ extract.doc = <<[pre |-> TRUE, text |-> <<"a">> \o Separator],
                     [pre |-> TRUE, text |-> Separator \o <<"a">>]>>
  /\ extract.out = <<"a">>

\* C26 as stated: every invocation of CompleteWithSchema makes exactly one
\* outbound request, whatever its arguments and its result.
C26_Original == completion.called => completion.requests = 1

\* C26, amended: an invocation makes no request when its schema argument does
\* not unmarshal into a map, and otherwise makes one call of the completions
\* API, sent once and again only after an answer the client library retries,
\* three times at most.
C26_RequestsPerInvocation ==
  completion.called =>
    IF ~UnmarshalsToMap(completion.schema)
    THEN /\ completion.requests = 0
         /\ completion.err = "failed to unmarshal schema string to map"
    ELSE /\ completion.requests \in 1 .. (ClientMaxRetries + 1)
         /\ \A k \in 1 .. (completion.requests - 1) :
              Retryable(completion.answers[k])
         /\ completion.err = "" =>
              completion.answers[completion.requests] = "content"

C26_Witness ==
  /\ completion.called
  /\ completion.schema = "malformed"
  /\ completion.requests = 0

\* C27: within one call of GetArxivPapersBySubmissionDate any two consecutive
\* requests to the ArXiv API are sent at least 3 seconds apart, and the first
\* is sent without a wait.
C27_RequestsPaced ==
  /\ \A k \in DOMAIN paging.requests :
       k > 1 => paging.requests[k] - paging.requests[k - 1] >= 3
  /\ paging.requests # <<>> => paging.requests[1] = 0

C27_Witness ==
  /\ paging.returned
  /\ Len(paging.requests) = 3
  /\ paging.requests[3] = 7

\* C28 as stated: GetArxivPapersBySubmissionDate returns every entry of the
\* result set exactly once and in server order, whatever the size of the
\* result set and of the pages the server returns.
C28_AllEntriesOnce ==
  (paging.returned /\ ~paging.err) =>
    paging.allEntries = [k \in 1 .. paging.total |-> k - 1]

\* The generation activity of item k returned an error: resp stayed "".
GenerationFailed(k) == lastResp.item = k /\ lastResp.r.empty

\* C29: in a BLS run an item whose generation activity returned an error is
\* skipped: PostTweetActivity is not invoked for it and no tweet of it is in
\* the output.
C29_GenerationErrorSkips ==
  (wf = "bls") =>
    \A k \in Items :
      GenerationFailed(k) =>
        /\ status[k] = St("Skipped", "generate")
        /\ \A n \in DOMAIN posts : posts[n].item # k
        /\ \A n \in DOMAIN twtsums : twtsums[n].item # k
        /\ (pc = "done" /\ ~retErr) => \A n \in DOMAIN retOut : retOut[n].item # k

C29_Witness ==
  /\ wf = "bls" /\ pc = "done"
  /\ GenerationFailed(2)
  /\ Len(retOut) = 1 /\ retOut[1].item = 1

C31_KeptIdsReturned ==
  /\ (wf = "arxiv" /\ pc = "done" /\ ~retErr) =>
       /\ \A n \in DOMAIN retOut :
            retOut[n] \in Items /\ status[retOut[n]].state = "Kept"
       /\ \A k \in Items :
            status[k].state = "Kept" => \E n \in DOMAIN retOut : retOut[n] = k
       /\ \A m, n \in DOMAIN retOut : m < n => retOut[m] < retOut[n]
  /\ (wf = "arxiv") =>
       \A k \in Items :
         (ReplyOf(k) /\ status[k].state \in {"Kept", "Dropped"}) =>
           (status[k].state = "Kept" <=> (lastResp.r.has /\ lastResp.r.keep))

C31_Witness ==
  /\ wf = "arxiv" /\ pc = "done" /\ ~retErr
  /\ Len(events) = 3
  /\ status[1].state = "Kept" /\ status[2].state = "Dropped"
  /\ status[3].state = "Kept"
  /\ retOut = <<1, 3>>

\* C32: what is published and returned for an item comes from that item's own
\* reply: the tweet handed to PostTweetActivity is the tweet of the current
\* item's reply, every tweet of the output belongs to the item that was
\* published with it, an item whose generation failed or whose reply has no
\* tweet contributes nothing, and an arXiv decision is that of the paper's own
\* reply.
C32_OwnContentOnly ==
  /\ (wf = "bls") =>
       /\ pc = "post" =>
            /\ twttxt.item = i
            /\ lastResp.item = i
            /\ twttxt = TweetOf(lastResp.r, i)
       /\ \A n \in DOMAIN posts : posts[n].item <= i
       /\ \A n \in DOMAIN twtsums :
            /\ twtsums[n].item \in Items
            /\ status[twtsums[n].item].state = "Published"
            /\ \A m \in DOMAIN twtsums : twtsums[m].item = twtsums[n].item => m = n
       /\ \A k \in Items :
            (lastResp.item = k /\ TweetOf(lastResp.r, k) = NoTweet) =>
              /\ \A n \in DOMAIN posts : posts[n].item # k
              /\ \A n \in DOMAIN twtsums : twtsums[n].item # k
  /\ (wf = "arxiv") =>
       /\ \A n \in DOMAIN ids : ids[n] <= i /\ status[ids[n]].state = "Kept"
       /\ \A k \in Items :
            (lastResp.item = k /\ status[k].state = "Kept") =>
              (~lastResp.r.empty /\ lastResp.r.has /\ lastResp.r.keep)

\* An item without a tweet of its own follows a published one.
C32_Witness ==
  /\ wf = "bls" /\ pc = "done" /\ Len(events) = 2
  /\ status[1].state = "Published"
  /\ lastResp.item = 2 /\ ~lastResp.r.empty /\ ~lastResp.r.has
  /\ status[2].state = "Skipped"
  /\ Len(twtsums) = 1 /\ twtsums[1].item = 1

\* C33: PostTweetThread posts the texts in order, each tweet after the first
\* as a reply to the id of the tweet posted just before it; it stops at the
\* first failing post, so when tweet n fails exactly tweets 1..n-1 were posted,
\* no post is attempted after n and an error is returned; an empty list
\* returns an error without any post.
C33_ThreadInOrder ==
  /\ Len(thread.posted) <= Len(thread.texts)
  /\ \A m \in DOMAIN thread.posted :
       /\ thread.posted[m].text = thread.texts[m]
       /\ thread.posted[m].replyTo =
            (IF m = 1 THEN NoID ELSE thread.posted[m - 1].id)
       /\ thread.posted[m].id # NoID
  /\ (thread.returned /\ thread.err) =>
       /\ Len(thread.posted) < Len(thread.texts) \/ thread.texts = <<>>
       /\ thread.calls = (IF thread.texts = <<>> THEN 0
                          ELSE Len(thread.posted) + 1)
  /\ (thread.returned /\ ~thread.err) =>
       /\ thread.texts # <<>>
       /\ Len(thread.posted) = Len(thread.texts)
       /\ thread.calls = Len(thread.texts)
  /\ ~thread.returned => thread.calls = Len(thread.posted)

\* The second of three tweets failed after the first was posted.
C33_Witness ==
  /\ thread.returned /\ thread.err
  /\ Len(thread.texts) = 3
  /\ Len(thread.posted) = 1
  /\ thread.calls = 2

\* The answer to the last request CompleteWithSchema sent.
FinalAnswer == completion.answers[completion.requests]

\* C34: CompleteWithSchema returns a nil error only together with non-empty
\* content: an answer without choices or with empty content gives
\* LLMResponseError, a failed request gives an error, and a schema string that
\* is not JSON gives an error before any request is sent.
C34_NilErrorHasContent ==
  completion.called =>
    /\ completion.err = "" => completion.content # ""
    /\ completion.err # "" => completion.content = ""
    /\ completion.schema \in {"malformed", ""} =>
         (completion.err # "" /\ completion.requests = 0)
    /\ completion.requests > 0 =>
         /\ FinalAnswer \in {"empty", "nochoices"} =>
              completion.err = "LLMResponseError"
         /\ FinalAnswer \in {"400", "429", "500", "none"} =>
              completion.err = "chat completion request failed"
         /\ FinalAnswer = "content" => completion.err = ""

C34_Witness ==
  /\ completion.called
  /\ completion.schema = "object"
  /\ completion.requests = 1
  /\ completion.answers[1] = "empty"
  /\ completion.err = "LLMResponseError"

\* A run in which every discovered event has a mapping returns.
MappedRunReturns == AllMapped => <>(pc = "done")

\* C35: every run of BLSReleaseSummaryWorkflow eventually returns when every
\* stage attempt ends in finite time, also when a stage fails permanently for
\* one item.
C35_RunReturns == <>(pc = "done")

\* C36: the pagination loop of GetArxivPapersBySubmissionDate terminates
\* whatever pages and totals the server reports.
C36_LoopTerminates == <>paging.returned

\* The loop returned after the largest number of requests: every page but the
\* last left start + len(entries) below the reported total.
C36_Witness ==
  /\ paging.returned /\ ~paging.err
  /\ Len(paging.requests) = MaxPages + 2
  /\ paging.start = (MaxPages + 1) * maxResults

\* C37: in GetAllEvents the caller never reads the list of parsed events while
\* the collector goroutine can still append to it.
C37_WritesBeforeReads ==
  collect.caller \in {"read", "returned"} =>
    collect.collector \in {"send", "exit"}

\* C38: once the parser's output channel is closed, the collector goroutine
\* terminates.
C38_CollectorExits ==
  (collect.parser = "closed") ~> (collect.collector = "exit")

\* C39: GenerateSchema is deterministic: two invocations on the same struct
\* type return the same schema text.
C39_SameSchemaText ==
  Len(schemaTexts) = 2 => schemaTexts[1] = schemaTexts[2]

\* With one field, or with a field tagged required, the two texts are equal.
OneFieldSameText ==
  (Len(schemaTexts) = 2
     /\ (Cardinality(contract.fields) <= 1 \/ contract.tagged # {}))
    => schemaTexts[1] = schemaTexts[2]

====
